---- MODULE Spec2Model ----
(***************************************************************************)
(* A model of pseudocode.js: the Lexer, the recursive-descent Parser, the  *)
(* TextStyle / TextEnvironment inline renderer, the HTMLBuilder and the    *)
(* Renderer tree walk, together with the renderToString entry point and    *)
(* the process-wide caption counter.                                       *)
(*                                                                         *)
(* Source text, atom text and emitted markup are strings; the JavaScript   *)
(* String methods the code uses are defined below on strings.  A thrown    *)
(* exception is a sticky error field of the lexer record: every            *)
(* operation on a failed lexer is a no-op, so the first error is the one   *)
(* the caller sees, as with a JavaScript throw that nobody catches.        *)
(***************************************************************************)
EXTENDS Integers, Sequences, FiniteSets, TLC

(***************************************************************************)
(* Method calls.  The methods of Lexer, Parser, TextStyle, HTMLBuilder,    *)
(* TextEnvironment and Renderer call one another, recursively; a call is   *)
(* written Call(method, args) and Call, defined after the methods, applies *)
(* the definition of that name to the arguments.                           *)
(***************************************************************************)
RECURSIVE Call(_, _)

(***************************************************************************)
(* JavaScript String methods                                               *)
(***************************************************************************)
Min(a, b) == IF a < b THEN a ELSE b
Max(a, b) == IF a > b THEN a ELSE b

\* the least and the greatest element of a non-empty set of numbers
Least(S) == CHOOSE i \in S : \A j \in S : i <= j
Greatest(S) == CHOOSE i \in S : \A j \in S : i >= j

\* str.slice(begin, end) for non-negative indices (0-based, end exclusive)
Slice(str, begin, end) ==
    LET b == Min(begin, Len(str))
        e == Min(end, Len(str))
    IN  IF b >= e THEN "" ELSE SubSeq(str, b + 1, e)

\* str.slice(begin)
SliceFrom(str, begin) == Slice(str, begin, Len(str))

\* str[i] (0-based); "" stands for undefined when i is out of range
CharAt(str, i) == Slice(str, i, i + 1)

StartsWith(str, prefix) == Slice(str, 0, Len(prefix)) = prefix

\* str.indexOf(sub)
IndexOf(str, sub) ==
    LET hits == {i \in 0..(Len(str) - Len(sub)) :
                    SubSeq(str, i + 1, i + Len(sub)) = sub}
    IN  IF hits = {} THEN -1 ELSE Least(hits)

UpperCaseLetters == "ABCDEFGHIJKLMNOPQRSTUVWXYZ"
LowerCaseLetters == "abcdefghijklmnopqrstuvwxyz"

LowerCaseMap ==
    [c \in {CharAt(UpperCaseLetters, i) : i \in 0..25} |->
        CharAt(LowerCaseLetters, IndexOf(UpperCaseLetters, c))]

Letters ==
    {CharAt(UpperCaseLetters, i) : i \in 0..25} \cup
    {CharAt(LowerCaseLetters, i) : i \in 0..25}

ToLowerChar(c) == IF c \in DOMAIN LowerCaseMap THEN LowerCaseMap[c] ELSE c

\* the characters matched by \s that the model's inputs can contain
WhitespaceChars == {" ", "\t", "\n", "\r", "\f"}
\* the line terminators, which the dot of a regular expression does not match
LineTerminators == {"\n", "\r"}

\* length of the longest run of characters in chars that starts at str[i]
RunIn(str, i, chars) ==
    LET stops == {j \in i..(Len(str) - 1) : SubSeq(str, j + 1, j + 1) \notin chars}
    IN  IF i >= Len(str) THEN 0
        ELSE IF stops = {} THEN Len(str) - i
        ELSE Least(stops) - i

\* length of the longest run of characters not in chars that starts at str[i]
RunNotIn(str, i, chars) ==
    LET stops == {j \in i..(Len(str) - 1) : SubSeq(str, j + 1, j + 1) \in chars}
    IN  IF i >= Len(str) THEN 0
        ELSE IF stops = {} THEN Len(str) - i
        ELSE Least(stops) - i

\* str.trim()
Trim(str) ==
    LET kept == {j \in 1..Len(str) : SubSeq(str, j, j) \notin WhitespaceChars}
    IN  IF kept = {} THEN "" ELSE SubSeq(str, Least(kept), Greatest(kept))

\* array.join(''), for the elements lo..hi of the array
RECURSIVE JoinRange(_, _, _)
JoinRange(strs, lo, hi) ==
    IF hi - lo < 4
    THEN (IF lo <= hi THEN strs[lo] ELSE "")
         \o (IF lo + 1 <= hi THEN strs[lo + 1] ELSE "")
         \o (IF lo + 2 <= hi THEN strs[lo + 2] ELSE "")
         \o (IF lo + 3 <= hi THEN strs[lo + 3] ELSE "")
    ELSE LET mid == (lo + hi) \div 2
         IN  JoinRange(strs, lo, mid) \o JoinRange(strs, mid + 1, hi)

Join(strs) == JoinRange(strs, 1, Len(strs))

\* str.toLowerCase()
ToLowerCase(str) ==
    Join([i \in 1..Len(str) |-> ToLowerChar(SubSeq(str, i, i))])

(***************************************************************************)
(* ParseError                                                              *)
(***************************************************************************)
NoError == [name |-> "none", message |-> ""]

\* stands for the marker character U+21B1 inserted at the failure position
Caret == "^"

\* stands for the grave accent U+0060, which a TLA+ string cannot contain
Backquote == "~"

ContextLen == 15

\* new ParseError(message, pos, input)
ParseError(message, pos, input) ==
    LET marked == Slice(input, 0, pos) \o Caret \o SliceFrom(input, pos)
        begin  == Max(0, pos - ContextLen)
        end    == pos + ContextLen
    IN  [name |-> "ParseError",
         message |-> "Error: " \o message \o " at position " \o ToString(pos)
                        \o ": " \o Backquote \o Slice(marked, begin, end)
                        \o Backquote]

\* new ParseError(message) and new ParseError(message, undefined, undefined)
ParseErrorNoPos(message) ==
    [name |-> "ParseError", message |-> "Error: " \o message]

(***************************************************************************)
(* Lexer                                                                   *)
(***************************************************************************)
NullAtom == [type |-> "null", text |-> "", whitespace |-> FALSE]
\* the EOF atom has text null, written "" here: no other atom has empty text
EOFAtom  == [type |-> "EOF", text |-> "", whitespace |-> FALSE]

\* the result of regex.exec(str): no match, a match with its first group,
\* or (mathPattern only) a thrown ParseError
NoMatch == [matched |-> FALSE, thrown |-> FALSE, all |-> "", group |-> ""]
Match(all, group) ==
    [matched |-> TRUE, thrown |-> FALSE, all |-> all, group |-> group]

SpecialChars == {"\\", "{", "}", "$", "&", "#", "%", "_"}

\* /^(\\\\|\\{|\\}|\\\$|\\&|\\#|\\%|\\_)/
SpecialExec(str) ==
    IF CharAt(str, 0) = "\\" /\ Len(str) >= 2 /\ CharAt(str, 1) \in SpecialChars
    THEN Match(Slice(str, 0, 2), Slice(str, 0, 2)) ELSE NoMatch

\* the while loop of mathPattern.exec for one delimiter pair
RECURSIVE MathScan(_, _, _, _, _)
MathScan(str, startDel, endDel, endPos, remain) ==
    IF ~(endPos < Len(str)) THEN NoMatch
    ELSE LET pos == IndexOf(remain, endDel) IN
         IF pos < 0 THEN [NoMatch EXCEPT !.thrown = TRUE]
         ELSE IF pos > 0 /\ CharAt(remain, pos - 1) = "\\"
         THEN LET skipLen == pos + Len(endDel)
              IN  MathScan(str, startDel, endDel, endPos + skipLen,
                           SliceFrom(remain, skipLen))
         ELSE Match(Slice(str, 0, endPos + pos + Len(endDel)),
                    Slice(str, Len(startDel), endPos + pos))

MathDelimiters == << [start |-> "$", end |-> "$"],
                     [start |-> "\\(", end |-> "\\)"] >>

\* mathPattern.exec(str): a match, null, or a thrown ParseError
RECURSIVE MathExecFrom(_, _)
MathExecFrom(str, di) ==
    IF di > Len(MathDelimiters) THEN NoMatch
    ELSE LET startDel == MathDelimiters[di].start
             endDel   == MathDelimiters[di].end
         IN  IF IndexOf(str, startDel) # 0 THEN MathExecFrom(str, di + 1)
             ELSE LET res == MathScan(str, startDel, endDel, Len(startDel),
                                      SliceFrom(str, Len(startDel)))
                  IN  IF res.matched \/ res.thrown THEN res
                      ELSE MathExecFrom(str, di + 1)

MathExec(str) == MathExecFrom(str, 1)

\* /^\\([a-zA-Z]+)/
FuncExec(str) ==
    LET n == RunIn(str, 1, Letters) IN
    IF CharAt(str, 0) = "\\" /\ n > 0
    THEN Match(Slice(str, 0, 1 + n), Slice(str, 1, 1 + n)) ELSE NoMatch

\* /^\{/
OpenExec(str) == IF CharAt(str, 0) = "{" THEN Match("{", "") ELSE NoMatch

\* /^\}/
CloseExec(str) == IF CharAt(str, 0) = "}" THEN Match("}", "") ELSE NoMatch

\* the quote regex /^(B|BB|'|'')/, B the grave accent: the alternatives are
\* tried from left to right
QuoteAlternatives == << Backquote, Backquote \o Backquote, "'", "''" >>

QuoteExec(str) ==
    LET found == {i \in DOMAIN QuoteAlternatives :
                     StartsWith(str, QuoteAlternatives[i])}
    IN  IF found = {} THEN NoMatch
        ELSE Match(QuoteAlternatives[Least(found)],
                   QuoteAlternatives[Least(found)])

\* /^[^\\{}$&#%_\s]+/
OrdinaryExec(str) ==
    LET n == RunNotIn(str, 0, SpecialChars \cup WhitespaceChars) IN
    IF n > 0 THEN Match(Slice(str, 0, n), "") ELSE NoMatch

\* atomRegex, in the order its keys are tried
AtomTypes == << "special", "math", "func", "open", "close", "quote",
                "ordinary" >>

AtomRegexExec(type, str) ==
    CASE type = "special"  -> SpecialExec(str)
      [] type = "math"     -> MathExec(str)
      [] type = "func"     -> FuncExec(str)
      [] type = "open"     -> OpenExec(str)
      [] type = "close"    -> CloseExec(str)
      [] type = "quote"    -> QuoteExec(str)
      [] type = "ordinary" -> OrdinaryExec(str)

\* /^%.*/
CommentExec(str) ==
    IF CharAt(str, 0) = "%"
    THEN LET n == 1 + RunNotIn(str, 1, LineTerminators)
         IN  Match(Slice(str, 0, n), "")
    ELSE NoMatch

\* /^\s+/
WhitespaceExec(str) ==
    LET n == RunIn(str, 0, WhitespaceChars) IN
    IF n > 0 THEN Match(Slice(str, 0, n), "") ELSE NoMatch

\* an exception was thrown and not caught: the lexer carries it
Failed(lexer) == lexer.error.name # "none"

\* some step of a sequence of steps threw; the steps are taken in order
Threw(steps) == \E i \in DOMAIN steps : Failed(steps[i].lexer)

\* the lexer after a sequence of steps, taken in order
LastLexer(steps) == steps[Len(steps)].lexer

\* Lexer.prototype._skip
Skip(lexer, len) ==
    [lexer EXCEPT !.pos = @ + len, !.remain = SliceFrom(@, len)]

\* the loop of _next that skips whitespace and comments: one pass skips
\* the whitespace, then a comment if there is one, and goes round again
RECURSIVE SkipBlanks(_, _)

\* the first half of a pass: the whitespace is skipped
SkipWhitespace(lexer, anyWhitespace) ==
    LET whitespaceMatch == WhitespaceExec(lexer.remain)
    IN  IF whitespaceMatch.matched
        THEN [lexer |-> Skip(lexer, Len(whitespaceMatch.all)),
              anyWhitespace |-> TRUE]
        ELSE [lexer |-> lexer, anyWhitespace |-> anyWhitespace]

\* the second half: the loop ends unless a comment is skipped
SkipComment(skipped) ==
    LET commentMatch == CommentExec(skipped.lexer.remain)
    IN  IF ~commentMatch.matched THEN skipped
        ELSE SkipBlanks(Skip(skipped.lexer, Len(commentMatch.all)),
                        skipped.anyWhitespace)

SkipBlanks(lexer, anyWhitespace) ==
    SkipComment(SkipWhitespace(lexer, anyWhitespace))

\* the body of the loop of _next over the keys of atomRegex, for the key
\* type whose regex gave match
TakeMatch(lexer, anyWhitespace, type, match) ==
    IF match.thrown
    THEN [lexer EXCEPT !.error =
             ParseErrorNoPos("Math environment is not closed")]
    ELSE [lexer EXCEPT
             !.nextAtom = [type |-> type,
                           \* match[1] ? match[1] : matchText
                           text |-> IF match.group # "" THEN match.group
                                    ELSE match.all,
                           whitespace |-> anyWhitespace],
             !.pos = @ + Len(match.all),
             !.remain = SliceFrom(@, Len(match.all))]

\* the loop of _next over the keys of atomRegex, matches being what the
\* regex of each key gives: the first key whose regex matches (or throws)
\* decides
TakeAtom(lexer, anyWhitespace, matches) ==
    LET found == {ti \in DOMAIN AtomTypes :
                     matches[ti].matched \/ matches[ti].thrown}
    IN  IF found = {}
        THEN [lexer EXCEPT !.error =
                 ParseError("Unrecoganizable atom", lexer.pos, lexer.input)]
        ELSE TakeMatch(lexer, anyWhitespace, AtomTypes[Least(found)],
                       matches[Least(found)])

NextAtom(lexer, anyWhitespace) ==
    TakeAtom(lexer, anyWhitespace,
             [ti \in DOMAIN AtomTypes |->
                 AtomRegexExec(AtomTypes[ti], lexer.remain)])

\* _next once whitespace and comments are skipped: atom was the lookahead
NextAfterBlanks(atom, skipped) ==
    IF skipped.lexer.remain = ""
    THEN [skipped.lexer EXCEPT !.currentAtom = atom, !.nextAtom = EOFAtom]
    ELSE NextAtom([skipped.lexer EXCEPT !.currentAtom = atom],
                  skipped.anyWhitespace)

\* Lexer.prototype._next
LexerNext(lexer) ==
    IF Failed(lexer) THEN lexer
    ELSE NextAfterBlanks(lexer.nextAtom, SkipBlanks(lexer, FALSE))

\* new Lexer(input)
Lexer(input) ==
    LexerNext([input |-> input, remain |-> input, pos |-> 0,
               nextAtom |-> NullAtom, currentAtom |-> NullAtom,
               error |-> NoError])

\* the optional text argument of accept / expect
Undefined == [kind |-> "undefined", str |-> "", list |-> <<>>]
Str(s)    == [kind |-> "string", str |-> s, list |-> <<>>]
List(l)   == [kind |-> "list", str |-> "", list |-> l]

\* Lexer.prototype._matchText
MatchText(lexer, text) ==
    CASE text.kind = "undefined" -> TRUE
      [] text.kind = "string" ->
            ToLowerCase(text.str) = ToLowerCase(lexer.nextAtom.text)
      [] text.kind = "list" ->
            \E i \in 1..Len(text.list) :
                ToLowerCase(text.list[i]) = ToLowerCase(lexer.nextAtom.text)

\* the condition under which accept(type, text) takes the next atom
Accepts(lexer, type, text) ==
    ~Failed(lexer) /\ lexer.nextAtom.type = type /\ MatchText(lexer, text)

\* what accept returns once _next left the lexer as lexer1: the text of the
\* current atom
Accepted(lexer1) ==
    [lexer |-> lexer1, isNull |-> Failed(lexer1),
     text |-> lexer1.currentAtom.text]

\* accept(type, text) that takes the lookahead atom whatever its text
AcceptKindOnly(lexer, type, text) ==
    IF ~Failed(lexer) /\ lexer.nextAtom.type = type
    THEN Accepted(LexerNext(lexer))
    ELSE [lexer |-> lexer, isNull |-> TRUE, text |-> ""]

\* Lexer.prototype.accept: isNull stands for the null return value
Accept(lexer, type, text) ==
    IF Accepts(lexer, type, text)
    THEN Accepted(LexerNext(lexer))
    ELSE [lexer |-> lexer, isNull |-> TRUE, text |-> ""]

\* the text argument as the message of expect shows it (a list is joined
\* with commas)
RECURSIVE JoinComma(_)
JoinComma(strs) ==
    IF strs = <<>> THEN ""
    ELSE IF Len(strs) = 1 THEN strs[1]
    ELSE strs[1] \o "," \o JoinComma(Tail(strs))

TextToString(text) ==
    CASE text.kind = "undefined" -> "undefined"
      [] text.kind = "string"    -> text.str
      [] text.kind = "list"      -> JoinComma(text.list)

\* what expect returns once _next left the lexer as lexer1
Expected(lexer1) == [lexer |-> lexer1, text |-> lexer1.currentAtom.text]

\* Lexer.prototype.expect
Expect(lexer, type, text) ==
    IF Failed(lexer) THEN [lexer |-> lexer, text |-> ""]
    ELSE IF lexer.nextAtom.type # type
    THEN [lexer |-> [lexer EXCEPT !.error =
                        ParseError("Expect an atom of " \o type
                                     \o " but received " \o lexer.nextAtom.type,
                                   lexer.pos, lexer.input)],
          text |-> ""]
    ELSE IF ~MatchText(lexer, text)
    THEN [lexer |-> [lexer EXCEPT !.error =
                        ParseError("Expect " \o Backquote \o TextToString(text)
                                     \o Backquote \o " but received "
                                     \o Backquote \o lexer.nextAtom.text
                                     \o Backquote,
                                   lexer.pos, lexer.input)],
          text |-> ""]
    ELSE Expected(LexerNext(lexer))

(***************************************************************************)
(* Parser                                                                  *)
(***************************************************************************)
\* new ParseNode(type, val): value "" stands for undefined, and an unset
\* whitespace property is FALSE
ParseNode(type, val) ==
    [type |-> type, value |-> val, children |-> <<>>, whitespace |-> FALSE]

\* new AtomNode(type, value, whitespace): a leaf
AtomNode(type, value, whitespace) ==
    [type |-> type, value |-> value, children |-> <<>>,
     whitespace |-> whitespace]

\* the null / undefined return value of a production; it is also what a
\* production that threw hands back, next to the lexer that carries the error
NullNode == [type |-> "null", value |-> "", children |-> <<>>,
             whitespace |-> FALSE]

IsNull(node) == node.type = "null"

\* ParseNode.prototype.addChild
AddChild(node, childNode) ==
    [node EXCEPT !.children = Append(@, childNode)]

Result(lexer, node) == [lexer |-> lexer, node |-> node]

\* the return value of a production whose last step left the lexer in state
\* lexer: the node, unless a step threw
Yield(lexer, node) ==
    IF Failed(lexer) THEN Result(lexer, NullNode) ELSE Result(lexer, node)

\* throw new ParseError(message) inside the parser
Throw(lexer, message) ==
    IF Failed(lexer) THEN lexer
    ELSE [lexer EXCEPT !.error = ParseErrorNoPos(message)]

IO_STATEMENTS == << "ensure", "require", "input", "output" >>
STATEMENTS == << "state", "print", "return" >>
COMMANDS == << "break", "continue" >>

\* ACCEPTED_TOKEN_BY_ATOM, in key order
ACCEPTED_TOKEN_BY_ATOM == <<
    [atomType |-> "ordinary", tokenType |-> "ordinary",
     tokenValues |-> Undefined],
    [atomType |-> "math", tokenType |-> "math", tokenValues |-> Undefined],
    [atomType |-> "special", tokenType |-> "special",
     tokenValues |-> Undefined],
    [atomType |-> "cond-symbol", tokenType |-> "func",
     tokenValues |-> List(<< "and", "or", "not", "true", "false", "to",
                             "downto" >>)],
    [atomType |-> "quote-symbol", tokenType |-> "quote",
     tokenValues |-> Undefined],
    [atomType |-> "sizing-dclr", tokenType |-> "func",
     tokenValues |-> List(<< "tiny", "scriptsize", "footnotesize", "small",
                             "normalsize", "large", "Large", "LARGE", "huge",
                             "Huge" >>)],
    [atomType |-> "font-dclr", tokenType |-> "func",
     tokenValues |-> List(<< "normalfont", "rmfamily", "sffamily",
                             "ttfamily", "upshape", "itshape", "slshape",
                             "scshape", "bfseries", "mdseries",
                             "lfseries" >>)],
    [atomType |-> "font-cmd", tokenType |-> "func",
     tokenValues |-> List(<< "textnormal", "textrm", "textsf", "texttt",
                             "textup", "textit", "textsl", "textsc",
                             "uppercase", "lowercase", "textbf", "textmd",
                             "textlf" >>)],
    [atomType |-> "text-symbol", tokenType |-> "func",
     tokenValues |-> List(<< "textbackslash" >>)] >>

\* Parser.prototype._parseAtom: the first entry of ACCEPTED_TOKEN_BY_ATOM
\* whose accept takes the next atom makes the node
ParseAtom(lexer) ==
    LET found == {i \in DOMAIN ACCEPTED_TOKEN_BY_ATOM :
                     Accepts(lexer, ACCEPTED_TOKEN_BY_ATOM[i].tokenType,
                             ACCEPTED_TOKEN_BY_ATOM[i].tokenValues)}
    IN  IF found = {} THEN Result(lexer, NullNode)
        ELSE LET acceptToken == ACCEPTED_TOKEN_BY_ATOM[Least(found)]
                 atomType    == acceptToken.atomType
                 accepted    == Call("Accept", <<lexer, acceptToken.tokenType,
                                       acceptToken.tokenValues>>)
                 anyWhitespace == accepted.lexer.currentAtom.whitespace
                 tokenText ==
                     IF atomType # "ordinary" /\ atomType # "math"
                     THEN ToLowerCase(accepted.text) ELSE accepted.text
             IN  Yield(accepted.lexer,
                        AtomNode(atomType, tokenText, anyWhitespace))

\* Parser.prototype._parseCall
ParseCall(lexer) ==
    LET accepted == Call("Accept", <<lexer, "func", Str("call")>>) IN
    IF accepted.isNull THEN Result(accepted.lexer, NullNode)
    ELSE LET anyWhitespace == accepted.lexer.currentAtom.whitespace
             open1    == Call("Expect", <<accepted.lexer, "open", Undefined>>)
             funcName == Call("Expect", <<open1.lexer, "ordinary", Undefined>>)
             close1   == Call("Expect", <<funcName.lexer, "close", Undefined>>)
             callNode == [ParseNode("call", funcName.text)
                             EXCEPT !.whitespace = anyWhitespace]
             open2    == Call("Expect", <<close1.lexer, "open", Undefined>>)
             argsNode == Call("ParseCloseText", <<open2.lexer>>)
             close2   == Call("Expect", <<argsNode.lexer, "close", Undefined>>)
         IN  IF Threw(<<open1, funcName, close1, open2, argsNode, close2>>)
             THEN Result(close2.lexer, NullNode)
             ELSE Result(close2.lexer, AddChild(callNode, argsNode.node))

\* one turn of the while loop of Parser.prototype._parseText: the node to
\* add, or none at the break, and the new value of anyWhitespace
ParseTextTurn(lexer, anyWhitespace) ==
    LET atom == Call("ParseAtom", <<lexer>>)
        \* this._parseAtom() || this._parseCall()
        sub  == IF IsNull(atom.node) THEN Call("ParseCall", <<atom.lexer>>)
                ELSE atom
    IN  IF Failed(sub.lexer)
        THEN [lexer |-> sub.lexer, node |-> NullNode,
              anyWhitespace |-> anyWhitespace]
        ELSE IF ~IsNull(sub.node)
        THEN [lexer |-> sub.lexer,
              node |-> IF anyWhitespace
                       THEN [sub.node EXCEPT !.whitespace = @ \/ anyWhitespace]
                       ELSE sub.node,
              anyWhitespace |-> anyWhitespace]
        ELSE LET open == Call("Accept", <<lexer, "open", Undefined>>) IN
             IF open.isNull
             THEN [lexer |-> open.lexer, node |-> NullNode,
                   anyWhitespace |-> anyWhitespace]
             ELSE LET inner  == Call("ParseCloseText", <<open.lexer>>)
                      any1   == inner.lexer.currentAtom.whitespace
                      close  == Call("Expect", <<inner.lexer, "close", Undefined>>)
                      any2   == close.lexer.currentAtom.whitespace
                  IN  IF Threw(<<inner, close>>)
                      THEN [lexer |-> close.lexer, node |-> NullNode,
                            anyWhitespace |-> anyWhitespace]
                      ELSE [lexer |-> close.lexer,
                            node |-> [inner.node EXCEPT !.whitespace = any1],
                            anyWhitespace |-> any2]

\* the while loop of Parser.prototype._parseText
RECURSIVE ParseTextLoop(_, _, _)
ParseTextLoop(lexer, textNode, anyWhitespace) ==
    LET turn == ParseTextTurn(lexer, anyWhitespace) IN
    IF IsNull(turn.node) THEN Result(turn.lexer, textNode)
    ELSE ParseTextLoop(turn.lexer, AddChild(textNode, turn.node),
                       turn.anyWhitespace)

\* Parser.prototype._parseText
ParseText(lexer, openOrClose) ==
    ParseTextLoop(lexer, ParseNode(openOrClose \o "-text", ""), FALSE)

\* Parser.prototype._parseCloseText
ParseCloseText(lexer) == ParseText(lexer, "close")

\* Parser.prototype._parseCond
ParseCond(lexer) == ParseCloseText(lexer)

\* Parser.prototype._parseOpenText
ParseOpenText(lexer) == ParseText(lexer, "open")

\* Parser.prototype._parseComment
ParseComment(lexer) ==
    LET accepted == Call("Accept", <<lexer, "func", Str("comment")>>) IN
    IF accepted.isNull THEN Result(accepted.lexer, NullNode)
    ELSE LET open  == Call("Expect", <<accepted.lexer, "open", Undefined>>)
             text  == Call("ParseCloseText", <<open.lexer>>)
             close == Call("Expect", <<text.lexer, "close", Undefined>>)
         IN  IF Threw(<<open, text, close>>)
             THEN Result(close.lexer, NullNode)
             ELSE Result(close.lexer,
                         AddChild(ParseNode("comment", ""), text.node))

\* _parseCommand that accepts \foo and \ELSE as well
ParseStrayCommand(lexer, acceptCommands) ==
    LET accepted == Call("Accept", <<lexer, "func",
                            List(acceptCommands \o << "foo", "else" >>)>>) IN
    IF accepted.isNull THEN Result(accepted.lexer, NullNode)
    ELSE Result(accepted.lexer,
                ParseNode("command",
                          ToLowerCase(accepted.lexer.currentAtom.text)))

\* Parser.prototype._parseCommand
ParseCommand(lexer, acceptCommands) ==
    LET accepted == Call("Accept", <<lexer, "func", List(acceptCommands)>>) IN
    IF accepted.isNull THEN Result(accepted.lexer, NullNode)
    ELSE Result(accepted.lexer,
                ParseNode("command",
                          ToLowerCase(accepted.lexer.currentAtom.text)))

\* Parser.prototype._parseStatement
ParseStatement(lexer, acceptStatements) ==
    LET accepted == Call("Accept", <<lexer, "func", List(acceptStatements)>>) IN
    IF accepted.isNull THEN Result(accepted.lexer, NullNode)
    ELSE LET stmtName == ToLowerCase(accepted.lexer.currentAtom.text)
             text     == Call("ParseOpenText", <<accepted.lexer>>)
         IN  Yield(text.lexer,
                    AddChild(ParseNode("statement", stmtName), text.node))

\* Parser.prototype._parseUpon
ParseUpon(lexer) ==
    LET accepted == Call("Accept", <<lexer, "func", Str("upon")>>) IN
    IF accepted.isNull THEN Result(accepted.lexer, NullNode)
    ELSE LET open  == Call("Expect", <<accepted.lexer, "open", Undefined>>)
             cond  == Call("ParseCond", <<open.lexer>>)
             close == Call("Expect", <<cond.lexer, "close", Undefined>>)
             block == Call("ParseBlock", <<close.lexer>>)
             end   == Call("Expect", <<block.lexer, "func", Str("endupon")>>)
         IN  IF Threw(<<open, cond, close, block, end>>)
             THEN Result(end.lexer, NullNode)
             ELSE Result(end.lexer,
                         AddChild(AddChild(ParseNode("upon", ""), cond.node),
                                  block.node))

\* Parser.prototype._parseRepeat
ParseRepeat(lexer) ==
    LET accepted == Call("Accept", <<lexer, "func", List(<< "REPEAT" >>)>>) IN
    IF accepted.isNull THEN Result(accepted.lexer, NullNode)
    ELSE LET repeatName == ToLowerCase(accepted.lexer.currentAtom.text)
             block == Call("ParseBlock", <<accepted.lexer>>)
             until == Call("Expect", <<block.lexer, "func", Str("until")>>)
             open  == Call("Expect", <<until.lexer, "open", Undefined>>)
             cond  == Call("ParseCond", <<open.lexer>>)
             close == Call("Expect", <<cond.lexer, "close", Undefined>>)
         IN  IF Threw(<<block, until, open, cond, close>>)
             THEN Result(close.lexer, NullNode)
             ELSE Result(close.lexer,
                         AddChild(AddChild(ParseNode("repeat", repeatName),
                                           block.node),
                                  cond.node))

\* Parser.prototype._parseLoop
ParseLoop(lexer) ==
    LET accepted == Call("Accept", <<lexer, "func", List(<< "FOR", "FORALL", "WHILE" >>)>>)
    IN
    IF accepted.isNull THEN Result(accepted.lexer, NullNode)
    ELSE LET loopName == ToLowerCase(accepted.lexer.currentAtom.text)
             open  == Call("Expect", <<accepted.lexer, "open", Undefined>>)
             cond  == Call("ParseCond", <<open.lexer>>)
             close == Call("Expect", <<cond.lexer, "close", Undefined>>)
             block == Call("ParseBlock", <<close.lexer>>)
             endLoop == IF loopName # "forall" THEN "end" \o loopName
                        ELSE "endfor"
             end   == Call("Expect", <<block.lexer, "func", Str(endLoop)>>)
         IN  IF Threw(<<open, cond, close, block, end>>)
             THEN Result(end.lexer, NullNode)
             ELSE Result(end.lexer,
                         AddChild(AddChild(ParseNode("loop", loopName),
                                           cond.node),
                                  block.node))

\* one turn of the elif loop of Parser.prototype._parseIf: the condition and
\* the block of one \ELIF, or none
ParseElifTurn(lexer) ==
    LET accepted == Call("Accept", <<lexer, "func", List(<< "elif", "elsif", "elseif" >>)>>)
    IN
    IF accepted.isNull
    THEN [lexer |-> accepted.lexer, isNull |-> TRUE,
          cond |-> NullNode, block |-> NullNode]
    ELSE LET open  == Call("Expect", <<accepted.lexer, "open", Undefined>>)
             cond  == Call("ParseCond", <<open.lexer>>)
             close == Call("Expect", <<cond.lexer, "close", Undefined>>)
             block == Call("ParseBlock", <<close.lexer>>)
         IN  IF Threw(<<open, cond, close, block>>)
             THEN [lexer |-> block.lexer, isNull |-> TRUE,
                   cond |-> NullNode, block |-> NullNode]
             ELSE [lexer |-> block.lexer, isNull |-> FALSE,
                   cond |-> cond.node, block |-> block.node]

\* the elif loop that leaves out numElif++
RECURSIVE ParseElifsUncounted(_, _, _)
ParseElifsUncounted(lexer, ifNode, numElif) ==
    LET turn == ParseElifTurn(lexer) IN
    IF turn.isNull
    THEN [lexer |-> turn.lexer, node |-> ifNode, numElif |-> numElif]
    ELSE ParseElifsUncounted(turn.lexer,
                             AddChild(AddChild(ifNode, turn.cond), turn.block),
                             numElif)

\* the elif loop of Parser.prototype._parseIf
RECURSIVE ParseElifs(_, _, _)
ParseElifs(lexer, ifNode, numElif) ==
    LET turn == ParseElifTurn(lexer) IN
    IF turn.isNull
    THEN [lexer |-> turn.lexer, node |-> ifNode, numElif |-> numElif]
    ELSE ParseElifs(turn.lexer,
                    AddChild(AddChild(ifNode, turn.cond), turn.block),
                    numElif + 1)

\* Parser.prototype._parseIf
ParseIf(lexer) ==
    LET accepted == Call("Accept", <<lexer, "func", Str("if")>>) IN
    IF accepted.isNull THEN Result(accepted.lexer, NullNode)
    ELSE LET open   == Call("Expect", <<accepted.lexer, "open", Undefined>>)
             cond   == Call("ParseCond", <<open.lexer>>)
             close  == Call("Expect", <<cond.lexer, "close", Undefined>>)
             block  == Call("ParseBlock", <<close.lexer>>)
             ifNode == AddChild(AddChild(ParseNode("if", ""), cond.node),
                                block.node)
             elifs  == ParseElifs(block.lexer, ifNode, 0)
             else   == Call("Accept", <<elifs.lexer, "func", Str("else")>>)
             hasElse == ~else.isNull
             elseBlock == IF hasElse THEN Call("ParseBlock", <<else.lexer>>)
                          ELSE Result(else.lexer, NullNode)
             withElse == IF hasElse THEN AddChild(elifs.node, elseBlock.node)
                         ELSE elifs.node
             end    == Call("Expect", <<elseBlock.lexer, "func", Str("endif")>>)
         IN  IF Threw(<<open, cond, close, block, elifs, else, elseBlock,
                        end>>)
             THEN Result(end.lexer, NullNode)
             ELSE Result(end.lexer,
                         [withElse EXCEPT !.value =
                             [numElif |-> elifs.numElif,
                              hasElse |-> hasElse]])

\* Parser.prototype._parseFunction
ParseFunction(lexer) ==
    LET accepted == Call("Accept", <<lexer, "func", List(<< "function", "procedure" >>)>>)
    IN
    IF accepted.isNull THEN Result(accepted.lexer, NullNode)
    ELSE LET funcType == accepted.lexer.currentAtom.text
             open1    == Call("Expect", <<accepted.lexer, "open", Undefined>>)
             funcName == Call("Expect", <<open1.lexer, "ordinary", Undefined>>)
             close1   == Call("Expect", <<funcName.lexer, "close", Undefined>>)
             open2    == Call("Expect", <<close1.lexer, "open", Undefined>>)
             argsNode == Call("ParseCloseText", <<open2.lexer>>)
             close2   == Call("Expect", <<argsNode.lexer, "close", Undefined>>)
             block    == Call("ParseBlock", <<close2.lexer>>)
             end      == Call("Expect", <<block.lexer, "func", Str("end" \o funcType)>>)
             functionNode ==
                 ParseNode("function",
                           [type |-> funcType, name |-> funcName.text])
         IN  IF Threw(<<open1, funcName, close1, open2, argsNode, close2,
                        block, end>>)
             THEN Result(end.lexer, NullNode)
             ELSE Result(end.lexer,
                         AddChild(AddChild(functionNode, argsNode.node),
                                  block.node))

\* a production made a node or threw, so that the next one is not tried
Done(result) == ~IsNull(result.node) \/ Failed(result.lexer)

\* Parser.prototype._parseControl
ParseControl(lexer) ==
    LET if == Call("ParseIf", <<lexer>>) IN
    IF Done(if) THEN if
    ELSE LET loop == Call("ParseLoop", <<lexer>>) IN
    IF Done(loop) THEN loop
    ELSE LET repeat == Call("ParseRepeat", <<lexer>>) IN
    IF Done(repeat) THEN repeat
    ELSE Call("ParseUpon", <<lexer>>)

\* one turn of the while loop of Parser.prototype._parseBlock: the node of
\* the first production that makes one, or none at the break
ParseBlockTurn(lexer) ==
    LET controlNode == Call("ParseControl", <<lexer>>) IN
    IF Done(controlNode) THEN controlNode
    ELSE LET functionNode == Call("ParseFunction", <<lexer>>) IN
    IF Done(functionNode) THEN functionNode
    ELSE LET statementNode == Call("ParseStatement", <<lexer, STATEMENTS>>) IN
    IF Done(statementNode) THEN statementNode
    ELSE LET commandNode == Call("ParseCommand", <<lexer, COMMANDS>>) IN
    IF Done(commandNode) THEN commandNode
    ELSE Call("ParseComment", <<lexer>>)

\* the while loop of Parser.prototype._parseBlock
RECURSIVE ParseBlockLoop(_, _)
ParseBlockLoop(lexer, blockNode) ==
    LET turn == ParseBlockTurn(lexer) IN
    IF IsNull(turn.node) THEN Result(turn.lexer, blockNode)
    ELSE ParseBlockLoop(turn.lexer, AddChild(blockNode, turn.node))

\* Parser.prototype._parseBlock
ParseBlock(lexer) == ParseBlockLoop(lexer, ParseNode("block", ""))

\* Parser.prototype._parseCaption
ParseCaption(lexer) ==
    LET accepted == Call("Accept", <<lexer, "func", Str("caption")>>) IN
    IF accepted.isNull THEN Result(accepted.lexer, NullNode)
    ELSE LET open  == Call("Expect", <<accepted.lexer, "open", Undefined>>)
             text  == Call("ParseCloseText", <<open.lexer>>)
             close == Call("Expect", <<text.lexer, "close", Undefined>>)
         IN  IF Threw(<<open, text, close>>)
             THEN Result(close.lexer, NullNode)
             ELSE Result(close.lexer,
                         AddChild(ParseNode("caption", ""), text.node))

\* one turn of the while loop of Parser.prototype._parseAlgorithmicInner
ParseAlgorithmicTurn(lexer) ==
    LET stmt == Call("ParseStatement", <<lexer, IO_STATEMENTS>>) IN
    IF Done(stmt) THEN stmt
    ELSE LET block == Call("ParseBlock", <<lexer>>) IN
         IF Failed(block.lexer) \/ Len(block.node.children) = 0
         THEN Result(block.lexer, NullNode)
         ELSE block

\* the while loop of Parser.prototype._parseAlgorithmicInner
RECURSIVE ParseAlgorithmicLoop(_, _)
ParseAlgorithmicLoop(lexer, algmicNode) ==
    LET turn == ParseAlgorithmicTurn(lexer) IN
    IF IsNull(turn.node) THEN Result(turn.lexer, algmicNode)
    ELSE ParseAlgorithmicLoop(turn.lexer, AddChild(algmicNode, turn.node))

\* Parser.prototype._parseAlgorithmicInner
ParseAlgorithmicInner(lexer) ==
    ParseAlgorithmicLoop(lexer, ParseNode("algorithmic", ""))

\* Parser.prototype._acceptEnvironment: isNull stands for the null return
AcceptEnvironment(lexer) ==
    LET accepted == Call("Accept", <<lexer, "func", Str("begin")>>) IN
    IF accepted.isNull
    THEN [lexer |-> accepted.lexer, isNull |-> TRUE, envName |-> ""]
    ELSE LET open    == Call("Expect", <<accepted.lexer, "open", Undefined>>)
             envName == Call("Expect", <<open.lexer, "ordinary", Undefined>>)
             close   == Call("Expect", <<envName.lexer, "close", Undefined>>)
         IN  [lexer |-> close.lexer,
              isNull |-> Threw(<<open, envName, close>>),
              envName |-> envName.text]

\* Parser.prototype._closeEnvironment: envName is Undefined when the caller
\* passes no argument
CloseEnvironment(lexer, envName) ==
    LET end   == Call("Expect", <<lexer, "func", Str("end")>>)
        open  == Call("Expect", <<end.lexer, "open", Undefined>>)
        name  == Call("Expect", <<open.lexer, "ordinary", envName>>)
        close == Call("Expect", <<name.lexer, "close", Undefined>>)
    IN  LastLexer(<<end, open, name, close>>)

\* one turn of the while loop of Parser.prototype._parseAlgorithmInner
ParseAlgorithmTurn(lexer) ==
    LET env == AcceptEnvironment(lexer) IN
    IF Failed(env.lexer) THEN Result(env.lexer, NullNode)
    ELSE IF ~env.isNull
    THEN IF env.envName # "algorithmic"
         THEN Result(Throw(env.lexer,
                           "Unexpected environment " \o env.envName),
                     NullNode)
         ELSE LET algmicNode == Call("ParseAlgorithmicInner", <<env.lexer>>)
                  closed     == CloseEnvironment(algmicNode.lexer, Undefined)
              IN  IF Failed(algmicNode.lexer)
                  THEN Result(algmicNode.lexer, NullNode)
                  ELSE Yield(closed, algmicNode.node)
    ELSE Call("ParseCaption", <<env.lexer>>)

\* the while loop of Parser.prototype._parseAlgorithmInner
RECURSIVE ParseAlgorithmLoop(_, _)
ParseAlgorithmLoop(lexer, algNode) ==
    LET turn == ParseAlgorithmTurn(lexer) IN
    IF IsNull(turn.node) THEN Result(turn.lexer, algNode)
    ELSE ParseAlgorithmLoop(turn.lexer, AddChild(algNode, turn.node))

\* Parser.prototype._parseAlgorithmInner
ParseAlgorithmInner(lexer) ==
    ParseAlgorithmLoop(lexer, ParseNode("algorithm", ""))

\* one turn of the while loop of Parser.prototype.parse: the node of one
\* environment, or none
ParseTurn(lexer) ==
    LET env == AcceptEnvironment(lexer) IN
    IF env.isNull THEN Result(env.lexer, NullNode)
    ELSE LET envNode ==
                 IF env.envName = "algorithm"
                 THEN Call("ParseAlgorithmInner", <<env.lexer>>)
                 ELSE IF env.envName = "algorithmic"
                 THEN Call("ParseAlgorithmicInner", <<env.lexer>>)
                 ELSE Result(Throw(env.lexer,
                                   "Unexpected environment " \o env.envName),
                             NullNode)
             closed == CloseEnvironment(envNode.lexer, Str(env.envName))
         IN  IF Failed(envNode.lexer) THEN Result(envNode.lexer, NullNode)
             ELSE Yield(closed, envNode.node)

\* the while loop of Parser.prototype.parse
RECURSIVE ParseLoopEnvs(_, _)
ParseLoopEnvs(lexer, root) ==
    LET turn == ParseTurn(lexer) IN
    IF IsNull(turn.node) THEN Result(turn.lexer, root)
    ELSE ParseLoopEnvs(turn.lexer, AddChild(root, turn.node))

\* parse() that returns the tree without looking for EOF
ParseNoEOF(lexer) ==
    ParseLoopEnvs(lexer, ParseNode("root", ""))

\* Parser.prototype.parse: the tree is returned only when no error was thrown
Parse(lexer) ==
    LET envs == ParseLoopEnvs(lexer, ParseNode("root", ""))
        eof  == Call("Expect", <<envs.lexer, "EOF", Undefined>>)
    IN  IF Failed(envs.lexer) THEN Result(envs.lexer, envs.node)
        ELSE Result(eof.lexer, envs.node)


(***************************************************************************)
(* Numbers.  Sizes and lengths are fixed-point numbers in hundredths; they *)
(* are printed as a/100, where JavaScript prints the shortest decimal of   *)
(* the floating-point value.  NaN stands for NaN and for an undefined      *)
(* value used as a number.                                                 *)
(***************************************************************************)
NaN == -1000000

Plus(a, b) == IF a = NaN \/ b = NaN THEN NaN ELSE a + b

Times(a, b) == IF a = NaN \/ b = NaN THEN NaN ELSE (a * b) \div 100

Digits2(n) == IF n < 10 THEN "0" \o ToString(n) ELSE ToString(n)

\* the text of a number in a template string
NumberToString(a) ==
    IF a = NaN THEN "NaN"
    ELSE LET m == IF a < 0 THEN -a ELSE a
         IN  (IF a < 0 THEN "-" ELSE "") \o ToString(m \div 100) \o
             (IF m % 100 = 0 THEN ""
              ELSE IF m % 10 = 0 THEN "." \o ToString((m % 100) \div 10)
              ELSE "." \o Digits2(m % 100))

(***************************************************************************)
(* TextStyle                                                               *)
(***************************************************************************)
\* new TextStyle(outerFontSize); css is the object this._css, its keys in
\* insertion order
TextStyle(outerFontSize) ==
    [css |-> <<>>, fontSize |-> outerFontSize,
     outerFontSize |-> outerFontSize]

\* new TextStyle()
DefaultFontSize == 100

Attr(attr, val) == [attr |-> attr, val |-> val]

\* TextStyle.prototype._fontCommandTable
FontCommandTable == [
    normalfont |-> << Attr("font-family", "KaTeX_Main") >>,
    rmfamily   |-> << Attr("font-family", "KaTeX_Main") >>,
    sffamily   |-> << Attr("font-family", "KaTeX_SansSerif") >>,
    ttfamily   |-> << Attr("font-family", "KaTeX_Typewriter") >>,
    bfseries   |-> << Attr("font-weight", "bold") >>,
    mdseries   |-> << Attr("font-weight", "medium") >>,
    lfseries   |-> << Attr("font-weight", "lighter") >>,
    upshape    |-> << Attr("font-style", "normal"),
                      Attr("font-variant", "normal") >>,
    itshape    |-> << Attr("font-style", "italic"),
                      Attr("font-variant", "normal") >>,
    scshape    |-> << Attr("font-style", "normal"),
                      Attr("font-variant", "small-caps") >>,
    slshape    |-> << Attr("font-style", "oblique"),
                      Attr("font-variant", "normal") >>,
    textnormal |-> << Attr("font-family", "KaTeX_Main") >>,
    textrm     |-> << Attr("font-family", "KaTeX_Main") >>,
    textsf     |-> << Attr("font-family", "KaTeX_SansSerif") >>,
    texttt     |-> << Attr("font-family", "KaTeX_Typewriter") >>,
    textbf     |-> << Attr("font-weight", "bold") >>,
    textmd     |-> << Attr("font-weight", "medium") >>,
    textlf     |-> << Attr("font-weight", "lighter") >>,
    textup     |-> << Attr("font-style", "normal"),
                      Attr("font-variant", "normal") >>,
    textit     |-> << Attr("font-style", "italic"),
                      Attr("font-variant", "normal") >>,
    textsc     |-> << Attr("font-style", "normal"),
                      Attr("font-variant", "small-caps") >>,
    textsl     |-> << Attr("font-style", "oblique"),
                      Attr("font-variant", "normal") >>,
    uppercase  |-> << Attr("text-transform", "uppercase") >>,
    lowercase  |-> << Attr("text-transform", "lowercase") >> ]

\* TextStyle.prototype._sizingScalesTable
SizingScalesTable == [
    tiny         |-> 68,
    scriptsize   |-> 80,
    footnotesize |-> 85,
    small        |-> 92,
    normalsize   |-> 100,
    large        |-> 117,
    Large        |-> 141,
    LARGE        |-> 158,
    huge         |-> 190,
    Huge         |-> 228 ]

\* this._css[attr] = val
SetCss(css, attr, val) ==
    IF \E i \in 1..Len(css) : css[i].attr = attr
    THEN [i \in 1..Len(css) |->
             IF css[i].attr = attr THEN Attr(attr, val) ELSE css[i]]
    ELSE Append(css, Attr(attr, val))

RECURSIVE SetAllCss(_, _)
SetAllCss(css, cmdStyles) ==
    IF cmdStyles = <<>> THEN css
    ELSE SetAllCss(SetCss(css, Head(cmdStyles).attr, Head(cmdStyles).val),
                   Tail(cmdStyles))

\* TextStyle.prototype.updateByCommand: thrown is TRUE when cmd is in neither
\* table
UpdateByCommand(textStyle, cmd) ==
    IF cmd \in DOMAIN FontCommandTable
    THEN [textStyle |-> [textStyle EXCEPT
                            !.css = SetAllCss(@, FontCommandTable[cmd])],
          thrown |-> FALSE]
    ELSE IF cmd \in DOMAIN SizingScalesTable
    THEN [textStyle |-> [textStyle EXCEPT
                            !.outerFontSize = textStyle.fontSize,
                            !.fontSize = SizingScalesTable[cmd]],
          thrown |-> FALSE]
    ELSE [textStyle |-> textStyle, thrown |-> TRUE]

\* TextStyle.prototype.toCSS: the ratio fontSize / outerFontSize is printed
\* as the two sizes
ToCSS(textStyle) ==
    Join([i \in 1..Len(textStyle.css) |->
             textStyle.css[i].attr \o ":" \o textStyle.css[i].val \o ";"])
    \o (IF textStyle.fontSize # textStyle.outerFontSize
        THEN "font-size:" \o ToString(textStyle.fontSize) \o "/"
                 \o ToString(textStyle.outerFontSize) \o "em;"
        ELSE "")

(***************************************************************************)
(* HTMLBuilder                                                             *)
(***************************************************************************)
\* new HTMLBuilder()
HTMLBuilder == [body |-> <<>>, textBuf |-> <<>>]

EntityMap == [c \in {"&", "<", ">", "\"", "'", "/"} |->
    CASE c = "&"  -> "&amp;"
      [] c = "<"  -> "&lt;"
      [] c = ">"  -> "&gt;"
      [] c = "\"" -> "&quot;"
      [] c = "'"  -> "&#39;"
      [] c = "/"  -> "&#x2F;"]

\* HTMLBuilder.prototype._escapeHtml
EscapeHtml(string) ==
    Join([i \in 1..Len(string) |->
             LET c == SubSeq(string, i, i)
             IN  IF c \in DOMAIN EntityMap THEN EntityMap[c] ELSE c])

\* HTMLBuilder.prototype._flushText
FlushText(html) ==
    IF Len(html.textBuf) = 0 THEN html
    ELSE [body |-> Append(html.body, Call("EscapeHtml", <<Join(html.textBuf)>>)),
          textBuf |-> <<>>]

Push(html, str) == [html EXCEPT !.body = Append(@, str)]

\* HTMLBuilder.prototype._beginTag: className "" stands for null, style is
\* the style string or the serialized style object, "" when falsy
BeginTag(html, tag, className, style, extraStyle) ==
    Push(html, "<" \o tag
                 \o (IF className # "" THEN " class=\"" \o className \o "\""
                     ELSE "")
                 \o (IF style # "" THEN " style=\"" \o style \o extraStyle
                                          \o "\""
                     ELSE "")
                 \o ">")

\* HTMLBuilder.prototype._endTag
EndTag(html, tag) == Push(html, "</" \o tag \o ">")

\* HTMLBuilder.prototype.beginDiv
BeginDiv(html, className, style) ==
    Push(Call("BeginTag", <<html, "div", className, style, "">>), "\n")

\* HTMLBuilder.prototype.endDiv
EndDiv(html) == Push(Call("EndTag", <<html, "div">>), "\n")

\* HTMLBuilder.prototype.beginP
BeginP(html, className, style, extraStyle) ==
    Push(Call("BeginTag", <<html, "p", className, style, extraStyle>>), "\n")

\* HTMLBuilder.prototype.endP
EndP(html) == Push(Call("EndTag", <<Call("FlushText", <<html>>), "p">>), "\n")

\* HTMLBuilder.prototype.beginSpan
BeginSpan(html, className, style) ==
    Call("BeginTag", <<Call("FlushText", <<html>>), "span", className, style, "">>)

\* endSpan without this._endTag('span')
EndSpanNoTag(html) == Call("FlushText", <<html>>)

\* HTMLBuilder.prototype.endSpan
EndSpan(html) == Call("EndTag", <<Call("FlushText", <<html>>), "span">>)

\* HTMLBuilder.prototype.putHTML
PutHTML(html, str) == Push(Call("FlushText", <<html>>), str)

\* HTMLBuilder.prototype.putText
PutText(html, text) == [html EXCEPT !.textBuf = Append(@, text)]

\* HTMLBuilder.prototype.write
Write(html, str) == Push(html, str)

\* HTMLBuilder.prototype.toMarkup
ToMarkup(html) == Trim(Join(Call("FlushText", <<html>>).body))

(***************************************************************************)
(* TextEnvironment                                                         *)
(***************************************************************************)
\* the math backend found by the Renderer constructor
Katex == [name |-> "katex", version |-> 0]
MathJax(version) == [name |-> "mathjax", version |-> version]
NoBackend == [name |-> "undefined", version |-> 0]

\* katex.renderToString(text): the markup of the external engine, opaque
KatexRenderToString(text) == "<katex>" \o Call("EscapeHtml", <<text>>) \o "</katex>"

\* MathJax.tex2chtml(text, {display: false}).outerHTML, opaque
MathJaxTex2chtml(text) == "<mjx>" \o Call("EscapeHtml", <<text>>) \o "</mjx>"

SpecialReplace == [c \in {"\\{", "\\}", "\\$", "\\&", "\\#", "\\%", "\\_"} |->
    SubSeq(c, 2, 2)]

\* the right single / double quotation marks are written as entities'
\* names, the model's strings being ASCII
QuoteReplace(text) ==
    CASE text = Backquote -> "[lsquo]"
      [] text = Backquote \o Backquote -> "[ldquo]"
      [] text = "'" -> "[rsquo]"
      [] text = "''" -> "[rdquo]"

TypeError(message) == [name |-> "TypeError", message |-> message]
EvalError(message) == [name |-> "EvalError", message |-> message]
ReferenceError(message) == [name |-> "ReferenceError", message |-> message]

\* a TextEnvironment that takes the first of the nodes only
TextEnvOfFirst(html, nodes, textStyle) ==
    [html |-> html,
     nodes |-> IF nodes = <<>> THEN <<>> ELSE << nodes[1] >>,
     textStyle |-> textStyle, error |-> NoError]

\* the state of one TextEnvironment while renderToHTML runs: this._html,
\* this._nodes, this._textStyle, and the exception thrown if any
TextEnv(html, nodes, textStyle) ==
    [html |-> html, nodes |-> nodes, textStyle |-> textStyle,
     error |-> NoError]

RECURSIVE RenderLoop(_, _)

\* TextEnvironment.prototype._renderCloseText
RenderCloseText(env, node, backend) ==
    LET newTextStyle == TextStyle(env.textStyle.fontSize)
        inner == Call("RenderToHTML", <<node.children, newTextStyle, backend>>)
        html1 == IF node.whitespace THEN Call("PutText", <<env.html, " ">>) ELSE env.html
    IN  IF inner.error # NoError THEN [env EXCEPT !.error = inner.error]
        ELSE [env EXCEPT !.html = Call("PutHTML", <<html1, inner.markup>>)]

\* the body of the while loop of renderToHTML for the node just shifted
RenderNode(env, node, backend) ==
    LET type  == node.type
        text  == node.value
        html0 == IF node.whitespace THEN Call("PutText", <<env.html, " ">>) ELSE env.html
        env0  == [env EXCEPT !.html = html0]
    IN
    CASE type = "ordinary" -> [env0 EXCEPT !.html = Call("PutText", <<html0, text>>)]
      [] type = "math" ->
            IF backend.name = "undefined"
            THEN [env0 EXCEPT !.error =
                     EvalError("No math backend found. "
                               \o "Please setup KaTeX or MathJax.")]
            ELSE IF backend.name = "katex"
            THEN [env0 EXCEPT
                    !.html = Call("PutHTML", <<html0, KatexRenderToString(text)>>)]
            ELSE IF backend.version = 3
            THEN [env0 EXCEPT !.html = Call("PutHTML", <<html0, MathJaxTex2chtml(text)>>)]
            ELSE [env0 EXCEPT !.html = Call("PutText", <<html0, "$" \o text \o "$">>)]
      [] type = "cond-symbol" ->
            [env0 EXCEPT !.html =
                Call("EndSpan", <<Call("PutText", <<Call("BeginSpan", <<html0, "ps-keyword", "">>),
                                ToLowerCase(text)>>)>>)]
      [] type = "special" ->
            IF text = "\\\\"
            THEN [env0 EXCEPT !.html = Call("PutHTML", <<html0, "<br/>">>)]
            ELSE [env0 EXCEPT !.html = Call("PutText", <<html0, SpecialReplace[text]>>)]
      [] type = "text-symbol" ->
            [env0 EXCEPT !.html = Call("PutText", <<html0, "\\">>)]
      [] type = "quote-symbol" ->
            [env0 EXCEPT !.html = Call("PutText", <<html0, QuoteReplace(text)>>)]
      [] type = "call" ->
            LET html1 == Call("EndSpan", <<Call("PutText", <<Call("BeginSpan", <<html0, "ps-funcname", "">>),
                                         text>>)>>)
                html2 == Call("Write", <<html1, "(">>)
                args  == Call("RenderCloseText", <<[env0 EXCEPT !.html = html2],
                                         node.children[1], backend>>)
            IN  IF args.error # NoError THEN args
                ELSE [args EXCEPT !.html = Call("Write", <<args.html, ")">>)]
      [] type = "close-text" -> Call("RenderCloseText", <<env0, node, backend>>)
      [] type \in {"font-dclr", "sizing-dclr"} ->
            LET updated == Call("UpdateByCommand", <<env0.textStyle, text>>)
                html1 == Call("BeginSpan", <<html0, "", Call("ToCSS", <<updated.textStyle>>)>>)
                \* the new environment shares this._nodes and this._textStyle
                inner == RenderLoop(TextEnv(HTMLBuilder, env0.nodes,
                                            updated.textStyle),
                                    backend)
            IN  IF updated.thrown
                THEN [env0 EXCEPT !.error =
                         ReferenceError("ParserError is not defined")]
                ELSE IF inner.error # NoError
                THEN [env0 EXCEPT !.error = inner.error]
                ELSE [env0 EXCEPT
                        !.html = Call("EndSpan", <<Call("PutHTML", <<html1, Call("ToMarkup", <<inner.html>>)>>)>>),
                        !.nodes = inner.nodes,
                        !.textStyle = inner.textStyle]
      [] type = "font-cmd" ->
            IF env0.nodes = <<>>
            THEN [env0 EXCEPT !.error =
                     TypeError("Cannot read properties of undefined")]
            ELSE LET textNode == env0.nodes[1] IN
                 IF textNode.type # "close-text" THEN env0
                 ELSE LET updated == Call("UpdateByCommand", <<
                                         TextStyle(env0.textStyle.fontSize),
                                         text>>)
                          innerTextStyle == updated.textStyle
                          html1 == Call("BeginSpan", <<html0, "", Call("ToCSS", <<innerTextStyle>>)>>)
                          inner == RenderLoop(TextEnv(HTMLBuilder,
                                                      textNode.children,
                                                      innerTextStyle),
                                              backend)
                      IN  IF updated.thrown
                          THEN [env0 EXCEPT !.error =
                                   ReferenceError("ParserError is not defined")]
                          ELSE IF inner.error # NoError
                          THEN [env0 EXCEPT !.error = inner.error]
                          ELSE [env0 EXCEPT
                                  !.html = Call("EndSpan", <<Call("PutHTML", <<html1,
                                                   Call("ToMarkup", <<inner.html>>)>>)>>),
                                  \* textNode.children was consumed
                                  !.nodes = << [textNode EXCEPT
                                                   !.children = inner.nodes] >>
                                            \o Tail(env0.nodes)]
      [] OTHER -> [env0 EXCEPT !.error =
                      ReferenceError("ParseError is not defined")]

\* the while loop of TextEnvironment.prototype.renderToHTML
RenderLoop(env, backend) ==
    IF env.error # NoError \/ env.nodes = <<>> THEN env
    ELSE RenderLoop(RenderNode([env EXCEPT !.nodes = Tail(@)],
                               Head(env.nodes), backend),
                    backend)

\* new TextEnvironment(nodes, textStyle).renderToHTML(backend): the markup,
\* with the text style as this call leaves it
RenderToHTML(nodes, textStyle, backend) ==
    LET env == RenderLoop(TextEnv(HTMLBuilder, nodes, textStyle), backend)
    IN  [markup |-> Call("ToMarkup", <<env.html>>), textStyle |-> env.textStyle,
         error |-> env.error]

(***************************************************************************)
(* RendererOptions.  An option is << >> when the caller leaves it          *)
(* undefined and << v >> when the caller passes v.                         *)
(***************************************************************************)
NoOptions == [indentSize |-> <<>>, commentDelimiter |-> <<>>,
              lineNumber |-> <<>>, lineNumberPunc |-> <<>>, noEnd |-> <<>>,
              scopeLines |-> <<>>, captionCount |-> <<>>,
              titlePrefix |-> <<>>]

OrDefault(option, default) == IF option = <<>> THEN default ELSE option[1]

DigitChars == {"0", "1", "2", "3", "4", "5", "6", "7", "8", "9"}

DigitValue(c) == CHOOSE d \in 0..9 : ToString(d) = c

RECURSIVE DigitsValue(_)
DigitsValue(str) ==
    IF str = "" THEN 0
    ELSE 10 * DigitsValue(SubSeq(str, 1, Len(str) - 1))
         + DigitValue(SubSeq(str, Len(str), Len(str)))

AllDigits(str) == \A i \in 1..Len(str) : SubSeq(str, i, i) \in DigitChars

\* Number(str) for the decimal numerals with at most two decimals, in
\* hundredths; the empty string is 0 and every other string is NaN
Number(str) ==
    LET text == Trim(str)
        dot  == IndexOf(text, ".")
        int  == IF dot = -1 THEN text ELSE Slice(text, 0, dot)
        frac == IF dot = -1 THEN "" ELSE SliceFrom(text, dot + 1)
    IN  IF text = "" THEN 0
        ELSE IF AllDigits(int) /\ AllDigits(frac) /\ Len(frac) <= 2
                /\ Len(int) + Len(frac) > 0
        THEN 100 * DigitsValue(int)
             + (IF Len(frac) = 1 THEN 10 * DigitsValue(frac)
                ELSE DigitsValue(frac))
        ELSE NaN

\* RendererOptions.prototype._parseEmVal
ParseEmVal(emVal) ==
    LET trimmed == Trim(emVal) IN
    IF IndexOf(trimmed, "em") # Len(trimmed) - 2
    THEN [error |-> TypeError("Unit error; expected " \o Backquote \o "em"
                               \o Backquote \o " suffix"), value |-> NaN]
    ELSE [error |-> NoError,
          value |-> Number(Slice(trimmed, 0, Len(trimmed) - 2))]

DefaultIndentSize == 120

\* function RendererOptions (options), but for the assignment to
\* Renderer.captionCount, which the caller of this operator makes
RendererOptions(options) ==
    LET indentSize ==
            IF options.indentSize # <<>> /\ options.indentSize[1] # ""
            THEN ParseEmVal(options.indentSize[1])
            ELSE [error |-> NoError, value |-> DefaultIndentSize]
    IN  [error |-> indentSize.error,
         options |->
            [indentSize |-> indentSize.value,
             commentDelimiter |-> OrDefault(options.commentDelimiter, " // "),
             lineNumberPunc |-> OrDefault(options.lineNumberPunc, ":"),
             lineNumber |-> OrDefault(options.lineNumber, FALSE),
             noEnd |-> OrDefault(options.noEnd, FALSE),
             scopeLines |-> OrDefault(options.scopeLines, FALSE),
             titlePrefix |-> OrDefault(options.titlePrefix, "Algorithm")]]

(***************************************************************************)
(* Renderer: the fields of the object, and its methods as operators from   *)
(* the object to the object as the method leaves it.                       *)
(***************************************************************************)
\* function Renderer (parser, options), once the tree is parsed and the
\* options are read; _numLOC is not set by the constructor
Renderer(root, options, backend) ==
    [root |-> root, options |-> options, openLine |-> FALSE,
     blockLevel |-> 0, numLOC |-> NaN,
     globalTextStyle |-> TextStyle(DefaultFontSize),
     backend |-> backend, html |-> HTMLBuilder]

\* no Renderer object
NoRenderer == Renderer(NullNode, RendererOptions(NoOptions).options,
                       NoBackend)

\* _closeLineIfAny that leaves the open line as it is
LeaveLineOpen(r) == r

\* Renderer.prototype._closeLineIfAny
CloseLineIfAny(r) ==
    IF ~r.openLine THEN r
    ELSE [r EXCEPT !.html = Call("EndP", <<@>>), !.openLine = FALSE]

\* Renderer.prototype._beginGroup: style is the serialized style object
BeginGroup(r, name, extraClass, style) ==
    [Call("CloseLineIfAny", <<r>>) EXCEPT !.html =
        Call("BeginDiv", <<@, "ps-" \o name
                      \o (IF extraClass # "" THEN " " \o extraClass ELSE ""),
                 style>>)]

\* Renderer.prototype._endGroup
EndGroup(r) == [Call("CloseLineIfAny", <<r>>) EXCEPT !.html = Call("EndDiv", <<@>>)]

FirstBlockExtraIndent == 60

\* Renderer.prototype._beginBlock
BeginBlock(r) ==
    LET extraIndentForFirstBlock ==
            IF r.options.lineNumber /\ r.blockLevel = 0
            THEN FirstBlockExtraIndent ELSE 0
        blockIndent0 == Plus(r.options.indentSize, extraIndentForFirstBlock)
        blockIndent  == IF r.options.scopeLines
                        THEN Times(blockIndent0, 50) ELSE blockIndent0
        opened == Call("BeginGroup", <<r, "block", "",
                             "margin-left:" \o NumberToString(blockIndent)
                                 \o "em;">>)
    IN  [opened EXCEPT !.blockLevel = @ + 1]

\* _endBlock without this._blockLevel--
EndBlockSameLevel(r) ==
    Call("EndGroup", <<Call("CloseLineIfAny", <<r>>)>>)

\* Renderer.prototype._endBlock
EndBlock(r) ==
    [Call("EndGroup", <<Call("CloseLineIfAny", <<r>>)>>) EXCEPT !.blockLevel = @ - 1]

Negate(a) == IF a = NaN THEN NaN ELSE -a

\* Renderer.prototype._newLine
NewLine(r) ==
    LET closed == Call("CloseLineIfAny", <<r>>)
        r1 == [closed EXCEPT !.openLine = TRUE,
                             !.globalTextStyle.outerFontSize = DefaultFontSize]
        indentSize == r.options.indentSize
        extraIndentSize ==
            Plus(IF r.options.lineNumber THEN Times(indentSize, 125) ELSE 0,
                 IF r.options.scopeLines THEN Times(indentSize, 10) ELSE 0)
        numLOC == IF r1.numLOC = NaN THEN NaN ELSE r1.numLOC + 1
        left == IF extraIndentSize = NaN THEN NaN
                ELSE -((r1.blockLevel - 1) * extraIndentSize)
        line == Call("BeginP", <<r1.html, "ps-line ps-code",
                       Call("ToCSS", <<r1.globalTextStyle>>), "">>)
    IN  IF r1.blockLevel > 0
        THEN [r1 EXCEPT
                !.numLOC = numLOC,
                !.html =
                    IF r.options.lineNumber
                    THEN Call("EndSpan", <<Call("PutText", <<
                             Call("BeginSpan", <<line, "ps-linenum",
                                       "left:" \o NumberToString(left)
                                           \o "em;">>),
                             (IF numLOC = NaN THEN "NaN" ELSE ToString(numLOC))
                                 \o r.options.lineNumberPunc>>)>>)
                    ELSE line]
        ELSE [r1 EXCEPT !.html =
                 Call("BeginP", <<@, "ps-line",
                        "text-indent:" \o NumberToString(Negate(indentSize))
                            \o "em;padding-left:" \o NumberToString(indentSize)
                            \o "em;",
                        Call("ToCSS", <<r1.globalTextStyle>>)>>)]

\* Renderer.prototype._typeKeyword
TypeKeyword(r, keyword) ==
    [r EXCEPT !.html = Call("EndSpan", <<Call("PutText", <<Call("BeginSpan", <<@, "ps-keyword", "">>),
                                       keyword>>)>>)]

\* Renderer.prototype._typeFuncName
TypeFuncName(r, funcName) ==
    [r EXCEPT !.html = Call("EndSpan", <<Call("PutText", <<Call("BeginSpan", <<@, "ps-funcname", "">>),
                                       funcName>>)>>)]

\* Renderer.prototype._typeText
TypeText(r, text) == [r EXCEPT !.html = Call("Write", <<@, text>>)]

(***************************************************************************)
(* Renderer.prototype._buildTree.  A build is the Renderer, the            *)
(* process-wide Renderer.captionCount, and the exception thrown if any;    *)
(* once an exception is thrown nothing more is done.                       *)
(***************************************************************************)
Build(r, captionCount) ==
    [renderer |-> r, captionCount |-> captionCount, error |-> NoError]

Thrown(build) == build.error # NoError

\* the build after a method that leaves the renderer as r
Do(build, r) ==
    IF Thrown(build) THEN build ELSE [build EXCEPT !.renderer = r]

SelectType(children, keep) ==
    SelectSeq(children, LAMBDA child : (child.type = "caption") = keep)

\* the captions of an algorithm node, and its other children
Captions(node) == SelectType(node.children, TRUE)
NonCaptions(node) == SelectType(node.children, FALSE)

\* the first loop of the case 'algorithm' without Renderer.captionCount++
CountNoCaptions(build, captions) == build

\* Renderer.captionCount++ in the first loop of the case 'algorithm', once
\* for every caption child
CountCaptions(build, captions) ==
    [build EXCEPT !.captionCount = @ + Len(captions)]

\* the first caption in place of the last
FirstCaption(captions) == captions[1]

\* lastCaptionNode after the first loop of the case 'algorithm'
LastCaption(captions) == captions[Len(captions)]

DisplayLoopName(loopType) ==
    CASE loopType = "for" -> "for"
      [] loopType = "forall" -> "for all"
      [] loopType = "while" -> "while"
      [] OTHER -> "undefined"

DisplayCmdName(cmdName) ==
    IF cmdName \in {"break", "continue"} THEN cmdName ELSE ""

DisplayStmtName(stmtName) ==
    CASE stmtName = "state" -> ""
      [] stmtName = "ensure" -> "Ensure: "
      [] stmtName = "require" -> "Require: "
      [] stmtName = "input" -> "Input: "
      [] stmtName = "output" -> "Output: "
      [] stmtName = "print" -> "print "
      [] stmtName = "return" -> "return "
      [] OTHER -> ""

\* the cases 'open-text' and 'close-text' of Renderer.prototype._buildTree
BuildText(build, node) ==
    LET r == build.renderer
        textStyle == IF node.type = "open-text" THEN r.globalTextStyle
                     ELSE TextStyle(r.globalTextStyle.fontSize)
        rendered == Call("RenderToHTML", <<node.children, textStyle, r.backend>>)
    IN  IF Thrown(build) THEN build
        ELSE IF rendered.error # NoError
        THEN [build EXCEPT !.error = rendered.error]
        ELSE Do(build, [r EXCEPT
                          !.html = Call("PutHTML", <<@, rendered.markup>>),
                          !.globalTextStyle =
                              IF node.type = "open-text"
                              THEN rendered.textStyle ELSE @])

\* the case 'comment' of Renderer.prototype._buildTree
BuildComment(build, node) ==
    LET r == build.renderer
        begun == Do(build, [r EXCEPT !.html =
                               Call("PutText", <<Call("BeginSpan", <<@, "ps-comment", "">>),
                                       r.options.commentDelimiter>>)])
        text == Call("BuildText", <<begun, node.children[1]>>)
    IN  Do(text, [text.renderer EXCEPT !.html = Call("EndSpan", <<@>>)])

\* the number of comments that lead the children
RECURSIVE LeadingComments(_)
LeadingComments(children) ==
    IF children # <<>> /\ Head(children).type = "comment"
    THEN 1 + LeadingComments(Tail(children))
    ELSE 0

RECURSIVE BuildComments(_, _)
BuildComments(build, comments) ==
    IF comments = <<>> THEN build
    ELSE BuildComments(Call("BuildComment", <<build, Head(comments)>>), Tail(comments))

\* Renderer.prototype._buildCommentsFromBlock: the build, and the block
\* node as the shifts leave it
BuildCommentsFromBlock(build, blockNode) ==
    LET n == LeadingComments(blockNode.children)
    IN  [build |-> BuildComments(build, SubSeq(blockNode.children, 1, n)),
         blockNode |-> [blockNode EXCEPT
                          !.children = SubSeq(@, n + 1, Len(@))]]

\* the case 'algorithmic' without this._numLOC = 0, in a Renderer whose
\* _numLOC starts at 0
BeginAlgorithmicNoReset(r) ==
    [Call("BeginGroup", <<r, "algorithmic",
             (IF r.options.lineNumber THEN " with-linenum " ELSE "")
             \o (IF r.options.scopeLines THEN " with-scopelines " ELSE ""),
             "">>) EXCEPT !.numLOC = IF @ = NaN THEN 0 ELSE @]

\* the case 'algorithmic' of _buildTree up to _buildTreeForAllChildren
BeginAlgorithmic(r) ==
    LET divClasses == (IF r.options.lineNumber THEN " with-linenum " ELSE "")
                      \o (IF r.options.scopeLines THEN " with-scopelines "
                          ELSE "")
    IN  IF divClasses # ""
        THEN [Call("BeginGroup", <<r, "algorithmic", divClasses, "">>) EXCEPT
                 !.numLOC = 0]
        ELSE Call("BeginGroup", <<r, "algorithmic", "", "">>)

\* this._newLine(); this._typeKeyword(keyword)
KeywordLine(build, keyword) ==
    Do(build, Call("TypeKeyword", <<Call("NewLine", <<build.renderer>>), keyword>>))

\* the end line written whatever the option noEnd
EndLineAlways(build, keyword) == Call("KeywordLine", <<build, keyword>>)

\* the end line of a construct: if (!this._options.noEnd) { ... }
EndLine(build, keyword) ==
    IF ~build.renderer.options.noEnd THEN Call("KeywordLine", <<build, keyword>>)
    ELSE build

RECURSIVE BuildElifs(_, _, _)

\* Renderer.prototype._buildTreeForAllChildren, for a sequence of children
BuildTreeForAll(build, children) ==
    IF children = <<>> THEN build
    ELSE Call("BuildTreeForAll", <<Call("BuildTree", <<build, Head(children)>>), Tail(children)>>)

\* this._buildTree(blockNode) without _buildCommentsFromBlock before it
BuildBlockWhole(build, blockNode) == Call("BuildTree", <<build, blockNode>>)

\* this._buildCommentsFromBlock(blockNode); this._buildTree(blockNode)
BuildBlock(build, blockNode) ==
    LET comments == Call("BuildCommentsFromBlock", <<build, blockNode>>)
    IN  Call("BuildTree", <<comments.build, comments.blockNode>>)

\* the elif loop of the case 'if'
BuildElifs(build, node, ei) ==
    IF ei >= node.value.numElif THEN build
    ELSE LET line == Call("KeywordLine", <<build, "else if ">>)
             cond == Call("BuildTree", <<line, node.children[2 + 2 * ei + 1]>>)
             then == Do(cond, Call("TypeKeyword", <<cond.renderer, " then">>))
         IN  BuildElifs(Call("BuildBlock", <<then, node.children[2 + 2 * ei + 2]>>),
                        node, ei + 1)

\* Renderer.prototype._buildTree
BuildTree(build, node) ==
    LET type == node.type
        r    == build.renderer
    IN
    IF Thrown(build) THEN build
    ELSE
    CASE type = "root" ->
            LET begun == Do(build, Call("BeginGroup", <<r, "root", "", "">>))
                built == Call("BuildTreeForAll", <<begun, node.children>>)
            IN  Do(built, Call("EndGroup", <<built.renderer>>))
      [] type = "algorithm" ->
            LET captions == Captions(node)
                counted == CountCaptions(build, captions)
                header ==
                    IF captions # <<>>
                    THEN Call("BuildTree", <<
                             Do(counted, Call("BeginGroup", <<r, "algorithm",
                                                    "with-caption", "">>)),
                             LastCaption(captions)>>)
                    ELSE Do(counted, Call("BeginGroup", <<r, "algorithm", "", "">>))
                built == Call("BuildTreeForAll", <<header, NonCaptions(node)>>)
            IN  Do(built, Call("EndGroup", <<built.renderer>>))
      [] type = "algorithmic" ->
            LET built == Call("BuildTreeForAll", <<Do(build, Call("BeginAlgorithmic", <<r>>)),
                                         node.children>>)
            IN  Do(built, Call("EndGroup", <<built.renderer>>))
      [] type = "block" ->
            LET built == Call("BuildTreeForAll", <<Do(build, Call("BeginBlock", <<r>>)),
                                         node.children>>)
            IN  Do(built, Call("EndBlock", <<built.renderer>>))
      [] type = "function" ->
            LET funcType == ToLowerCase(node.value.type)
                head == Do(build,
                           Call("TypeText", <<Call("TypeFuncName", <<
                                        Call("TypeKeyword", <<Call("NewLine", <<r>>),
                                                    funcType \o " ">>),
                                        node.value.name>>),
                                    "(">>))
                args  == Call("BuildTree", <<head, node.children[1]>>)
                close == Do(args, Call("TypeText", <<args.renderer, ")">>))
                block == Call("BuildBlock", <<close, node.children[2]>>)
            IN  Call("EndLine", <<block, "end " \o funcType>>)
      [] type = "if" ->
            LET line  == Call("KeywordLine", <<build, "if ">>)
                cond  == Call("BuildTree", <<line, node.children[1]>>)
                then  == Do(cond, Call("TypeKeyword", <<cond.renderer, " then">>))
                block == Call("BuildBlock", <<then, node.children[2]>>)
                elifs == BuildElifs(block, node, 0)
                else  == IF node.value.hasElse
                         THEN Call("BuildBlock", <<Call("KeywordLine", <<elifs, "else">>),
                                         node.children[Len(node.children)]>>)
                         ELSE elifs
            IN  Call("EndLine", <<else, "end if">>)
      [] type = "loop" ->
            LET line  == Call("KeywordLine", <<build,
                                     DisplayLoopName(node.value) \o " ">>)
                cond  == Call("BuildTree", <<line, node.children[1]>>)
                do    == Do(cond, Call("TypeKeyword", <<cond.renderer, " do">>))
                block == Call("BuildBlock", <<do, node.children[2]>>)
            IN  Call("EndLine", <<block, IF node.value = "while" THEN "end while"
                               ELSE "end for">>)
      [] type = "repeat" ->
            LET line  == Call("KeywordLine", <<build, "repeat">>)
                block == Call("BuildBlock", <<line, node.children[1]>>)
                until == Call("KeywordLine", <<block, "until ">>)
            IN  Call("BuildTree", <<until, node.children[2]>>)
      [] type = "upon" ->
            LET line  == Call("KeywordLine", <<build, "upon ">>)
                cond  == Call("BuildTree", <<line, node.children[1]>>)
                block == Call("BuildBlock", <<cond, node.children[2]>>)
            IN  Call("EndLine", <<block, "end upon">>)
      [] type = "command" ->
            IF DisplayCmdName(node.value) # ""
            THEN Call("KeywordLine", <<build, DisplayCmdName(node.value)>>)
            ELSE Do(build, Call("NewLine", <<r>>))
      [] type = "caption" ->
            Call("BuildTree", <<Call("KeywordLine", <<build,
                                  r.options.titlePrefix \o " "
                                      \o ToString(build.captionCount) \o " ">>),
                      node.children[1]>>)
      [] type = "comment" -> Call("BuildComment", <<build, node>>)
      [] type = "statement" ->
            Call("BuildTree", <<IF DisplayStmtName(node.value) # ""
                      THEN Call("KeywordLine", <<build, DisplayStmtName(node.value)>>)
                      ELSE Do(build, Call("NewLine", <<r>>)),
                      node.children[1]>>)
      [] type \in {"open-text", "close-text"} -> Call("BuildText", <<build, node>>)
      [] OTHER ->
            [build EXCEPT !.error =
                [name |-> "ParseError",
                 message |-> "Error: Unexpected ParseNode of type " \o type]]

(***************************************************************************)
(* makeRenderer and toMarkup                                               *)
(***************************************************************************)
\* the math backend loaded in the process
Backend == Katex

\* new Renderer(parser, options) that starts the caption counter at 0 when
\* the option captionCount is not given
NewRendererReset(parsed, read, opts, count) ==
    IF Failed(parsed.lexer)
    THEN [lexer |-> parsed.lexer, root |-> NullNode,
          renderer |-> NoRenderer, captionCount |-> count,
          error |-> parsed.lexer.error]
    ELSE IF read.error # NoError
    THEN [lexer |-> parsed.lexer, root |-> parsed.node,
          renderer |-> NoRenderer, captionCount |-> count,
          error |-> read.error]
    ELSE [lexer |-> parsed.lexer, root |-> parsed.node,
          renderer |-> Renderer(parsed.node, read.options, Backend),
          captionCount |-> OrDefault(opts.captionCount, 0),
          error |-> NoError]

\* new Renderer(parser, options) when parser.parse() ended as parsed and
\* new RendererOptions(options) as read: the tree is parsed first, and
\* RendererOptions sets Renderer.captionCount after it has read indentSize
NewRenderer(parsed, read, opts, count) ==
    IF Failed(parsed.lexer)
    THEN [lexer |-> parsed.lexer, root |-> NullNode,
          renderer |-> NoRenderer, captionCount |-> count,
          error |-> parsed.lexer.error]
    ELSE IF read.error # NoError
    THEN [lexer |-> parsed.lexer, root |-> parsed.node,
          renderer |-> NoRenderer, captionCount |-> count,
          error |-> read.error]
    ELSE [lexer |-> parsed.lexer, root |-> parsed.node,
          renderer |-> Renderer(parsed.node, read.options, Backend),
          captionCount |-> OrDefault(opts.captionCount, count),
          error |-> NoError]

\* makeRenderer(data, options): new Lexer(data), new Parser(lexer) and new
\* Renderer(parser, options); count is Renderer.captionCount when the call
\* is made
MakeRenderer(data, opts, count) ==
    NewRenderer(Call("Parse", <<Lexer(data)>>), RendererOptions(opts), opts,
                count)

\* what toMarkup returns or throws when _buildTree ended as build
MarkupOf(build) ==
    [renderer |-> build.renderer, captionCount |-> build.captionCount,
     error |-> build.error,
     markup |-> IF Thrown(build) THEN ""
                ELSE Call("ToMarkup", <<build.renderer.html>>)]

\* Renderer.prototype.toMarkup
RendererToMarkup(r, count) ==
    MarkupOf(Call("BuildTree", <<Build(r, count), r.root>>))

(***************************************************************************)
(* The dispatch of a method call to the definition of the method.          *)
(***************************************************************************)
Call(method, args) ==
    CASE method = "Accept" /\ Len(args) = 3 -> Accept(args[1], args[2], args[3])
      [] method = "Expect" /\ Len(args) = 3 -> Expect(args[1], args[2], args[3])
      [] method = "ParseAtom" /\ Len(args) = 1 -> ParseAtom(args[1])
      [] method = "ParseCloseText" /\ Len(args) = 1 -> ParseCloseText(args[1])
      [] method = "ParseCond" /\ Len(args) = 1 -> ParseCond(args[1])
      [] method = "ParseOpenText" /\ Len(args) = 1 -> ParseOpenText(args[1])
      [] method = "ParseCall" /\ Len(args) = 1 -> ParseCall(args[1])
      [] method = "ParseText" /\ Len(args) = 2 -> ParseText(args[1], args[2])
      [] method = "ParseComment" /\ Len(args) = 1 -> ParseComment(args[1])
      [] method = "ParseCommand" /\ Len(args) = 2 -> ParseCommand(args[1], args[2])
      [] method = "ParseStatement" /\ Len(args) = 2 -> ParseStatement(args[1], args[2])
      [] method = "ParseUpon" /\ Len(args) = 1 -> ParseUpon(args[1])
      [] method = "ParseRepeat" /\ Len(args) = 1 -> ParseRepeat(args[1])
      [] method = "ParseLoop" /\ Len(args) = 1 -> ParseLoop(args[1])
      [] method = "ParseIf" /\ Len(args) = 1 -> ParseIf(args[1])
      [] method = "ParseFunction" /\ Len(args) = 1 -> ParseFunction(args[1])
      [] method = "ParseControl" /\ Len(args) = 1 -> ParseControl(args[1])
      [] method = "ParseBlock" /\ Len(args) = 1 -> ParseBlock(args[1])
      [] method = "ParseCaption" /\ Len(args) = 1 -> ParseCaption(args[1])
      [] method = "ParseAlgorithmicInner" /\ Len(args) = 1 -> ParseAlgorithmicInner(args[1])
      [] method = "AcceptEnvironment" /\ Len(args) = 1 -> AcceptEnvironment(args[1])
      [] method = "CloseEnvironment" /\ Len(args) = 2 -> CloseEnvironment(args[1], args[2])
      [] method = "ParseAlgorithmInner" /\ Len(args) = 1 -> ParseAlgorithmInner(args[1])
      [] method = "Parse" /\ Len(args) = 1 -> Parse(args[1])
      [] method = "LexerNext" /\ Len(args) = 1 -> LexerNext(args[1])
      [] method = "ParseTextTurn" /\ Len(args) = 2 -> ParseTextTurn(args[1], args[2])
      [] method = "ParseBlockTurn" /\ Len(args) = 1 -> ParseBlockTurn(args[1])
      [] method = "ParseElifTurn" /\ Len(args) = 1 -> ParseElifTurn(args[1])
      [] method = "ParseAlgorithmicTurn" /\ Len(args) = 1 -> ParseAlgorithmicTurn(args[1])
      [] method = "ParseAlgorithmTurn" /\ Len(args) = 1 -> ParseAlgorithmTurn(args[1])
      [] method = "ParseTurn" /\ Len(args) = 1 -> ParseTurn(args[1])
      [] method = "RenderNode" /\ Len(args) = 3 -> RenderNode(args[1], args[2], args[3])
      [] method = "UpdateByCommand" /\ Len(args) = 2 -> UpdateByCommand(args[1], args[2])
      [] method = "ToCSS" /\ Len(args) = 1 -> ToCSS(args[1])
      [] method = "EscapeHtml" /\ Len(args) = 1 -> EscapeHtml(args[1])
      [] method = "FlushText" /\ Len(args) = 1 -> FlushText(args[1])
      [] method = "BeginTag" /\ Len(args) = 5 -> BeginTag(args[1], args[2], args[3], args[4], args[5])
      [] method = "EndTag" /\ Len(args) = 2 -> EndTag(args[1], args[2])
      [] method = "BeginDiv" /\ Len(args) = 3 -> BeginDiv(args[1], args[2], args[3])
      [] method = "EndDiv" /\ Len(args) = 1 -> EndDiv(args[1])
      [] method = "BeginP" /\ Len(args) = 4 -> BeginP(args[1], args[2], args[3], args[4])
      [] method = "EndP" /\ Len(args) = 1 -> EndP(args[1])
      [] method = "BeginSpan" /\ Len(args) = 3 -> BeginSpan(args[1], args[2], args[3])
      [] method = "EndSpan" /\ Len(args) = 1 -> EndSpan(args[1])
      [] method = "PutHTML" /\ Len(args) = 2 -> PutHTML(args[1], args[2])
      [] method = "PutText" /\ Len(args) = 2 -> PutText(args[1], args[2])
      [] method = "Write" /\ Len(args) = 2 -> Write(args[1], args[2])
      [] method = "ToMarkup" /\ Len(args) = 1 -> ToMarkup(args[1])
      [] method = "RenderCloseText" /\ Len(args) = 3 -> RenderCloseText(args[1], args[2], args[3])
      [] method = "RenderToHTML" /\ Len(args) = 3 -> RenderToHTML(args[1], args[2], args[3])
      [] method = "CloseLineIfAny" /\ Len(args) = 1 -> CloseLineIfAny(args[1])
      [] method = "BeginGroup" /\ Len(args) = 4 -> BeginGroup(args[1], args[2], args[3], args[4])
      [] method = "EndGroup" /\ Len(args) = 1 -> EndGroup(args[1])
      [] method = "BeginBlock" /\ Len(args) = 1 -> BeginBlock(args[1])
      [] method = "EndBlock" /\ Len(args) = 1 -> EndBlock(args[1])
      [] method = "NewLine" /\ Len(args) = 1 -> NewLine(args[1])
      [] method = "TypeKeyword" /\ Len(args) = 2 -> TypeKeyword(args[1], args[2])
      [] method = "TypeFuncName" /\ Len(args) = 2 -> TypeFuncName(args[1], args[2])
      [] method = "TypeText" /\ Len(args) = 2 -> TypeText(args[1], args[2])
      [] method = "BuildText" /\ Len(args) = 2 -> BuildText(args[1], args[2])
      [] method = "BuildComment" /\ Len(args) = 2 -> BuildComment(args[1], args[2])
      [] method = "BuildCommentsFromBlock" /\ Len(args) = 2 -> BuildCommentsFromBlock(args[1], args[2])
      [] method = "BeginAlgorithmic" /\ Len(args) = 1 -> BeginAlgorithmic(args[1])
      [] method = "KeywordLine" /\ Len(args) = 2 -> KeywordLine(args[1], args[2])
      [] method = "EndLine" /\ Len(args) = 2 -> EndLine(args[1], args[2])
      [] method = "BuildTreeForAll" /\ Len(args) = 2 -> BuildTreeForAll(args[1], args[2])
      [] method = "BuildBlock" /\ Len(args) = 2 -> BuildBlock(args[1], args[2])
      [] method = "BuildTree" /\ Len(args) = 2 -> BuildTree(args[1], args[2])
      [] method = "MakeRenderer" /\ Len(args) = 3 -> MakeRenderer(args[1], args[2], args[3])
      [] method = "RendererToMarkup" /\ Len(args) = 2 -> RendererToMarkup(args[1], args[2])

(***************************************************************************)
(* Documents.  A document is described by the items that stand at its top  *)
(* level, in source order; its source text is computed from them.          *)
(***************************************************************************)
MaxItems == 2
MaxEnvs == 2
MaxCalls == 2

RECURSIVE SeqsUpTo(_, _)
\* the sequences over S of length at most n
SeqsUpTo(S, n) ==
    IF n = 0 THEN { <<>> }
    ELSE LET shorter == SeqsUpTo(S, n - 1)
         IN  shorter \cup { Append(q, x) : q \in shorter, x \in S }

\* an environment \begin{kind} ... \end{closes}; parts are what an algorithm
\* environment holds, each "caption" or "algorithmic", and inner is the name
\* in the \end of the algorithmic environments it holds
Env(kind, closes, inner, parts) ==
    [kind |-> kind, closes |-> closes, inner |-> inner, parts |-> parts]

\* blank: whitespace and a % comment; text: anything else
Other(kind) == Env(kind, "", "", <<>>)

EnvKinds == {"algorithm", "algorithmic"}

IsEnv(item) == item.kind \in EnvKinds

\* the texts of the j-th part of the i-th item: they name their place
CaptionText(i, j) == "c" \o ToString(i) \o ToString(j)
StateText(i, j) == "s" \o ToString(i) \o ToString(j)

Begin(name) == "\\begin{" \o name \o "}"
End(name) == "\\end{" \o name \o "}"

PartText(item, i, j) ==
    IF item.parts[j] = "caption"
    THEN "\\caption{" \o CaptionText(i, j) \o "}\n"
    ELSE Begin("algorithmic") \o "\\STATE " \o StateText(i, j)
         \o End(item.inner) \o " "

ItemText(item, i) ==
    CASE item.kind = "blank" -> " % note\n"
      [] item.kind = "text" -> "text"
      [] item.kind = "algorithmic" ->
            Begin("algorithmic") \o "\n\\STATE " \o StateText(i, 0) \o "\n"
            \o End(item.closes) \o "\n"
      [] item.kind = "algorithm" ->
            Begin("algorithm")
            \o Join([j \in 1..Len(item.parts) |-> PartText(item, i, j)])
            \o End(item.closes)

\* the source text of a document
Source(doc) == Join([i \in 1..Len(doc) |-> ItemText(doc[i], i)])

\* the names tried in \end
EndNames == {"algorithm", "algorithmic", "foo"}

\* the items of the documents that are parsed: every pairing of the names
ParseItems ==
    { Env("algorithmic", closes, "", <<>>) : closes \in EndNames }
    \cup { Env("algorithm", closes, inner, << "caption", "algorithmic" >>) :
              closes \in EndNames, inner \in EndNames }
    \cup { Other("blank"), Other("text") }

ParseDocuments == SeqsUpTo(ParseItems, MaxItems)

(***************************************************************************)
(* The state: the process-wide Renderer.captionCount, and the last call.   *)
(***************************************************************************)
VARIABLES
    captionCount,   \* Renderer.captionCount
    calls,          \* the number of calls made
    pc,             \* "idle", or how the last call ended: "done"
                    \* (returned), "failed" (threw)
    doc,            \* the document of the call
    input,          \* its source text, the argument input
    options,        \* the argument options
    entryCount,     \* Renderer.captionCount when the call was made
    lexer,          \* the Lexer when the call ended
    root,           \* the tree that parse() returned
    renderer,       \* the Renderer when the call ended
    markup,         \* the string returned
    error,          \* the exception thrown
    before,         \* the Lexer before its last accept or expect
    returned        \* the last accept or expect: its arguments and what
                    \* it returned

vars == << captionCount, calls, pc, doc, input, options, entryCount, lexer,
           root, renderer, markup, error, before, returned >>

NoLexer == [input |-> "", remain |-> "", pos |-> 0, nextAtom |-> NullAtom,
            currentAtom |-> NullAtom, error |-> NoError]

\* no accept or expect was called
NoReturn == [method |-> "", type |-> "", text |-> Undefined, isNull |-> TRUE,
             value |-> ""]

Init ==
    /\ captionCount = 0
    /\ calls = 0
    /\ pc = "idle"
    /\ doc = <<>>
    /\ input = ""
    /\ options = NoOptions
    /\ entryCount = 0
    /\ lexer = NoLexer
    /\ root = NullNode
    /\ renderer = NoRenderer
    /\ markup = ""
    /\ error = NoError
    /\ before = NoLexer
    /\ returned = NoReturn

\* the caller has the result or the exception; the objects of the call are
\* garbage
Return ==
    /\ pc \in {"done", "failed"}
    /\ pc' = "idle"
    /\ doc' = <<>>
    /\ input' = ""
    /\ options' = NoOptions
    /\ entryCount' = 0
    /\ lexer' = NoLexer
    /\ root' = NullNode
    /\ renderer' = NoRenderer
    /\ markup' = ""
    /\ error' = NoError
    /\ before' = NoLexer
    /\ returned' = NoReturn
    /\ UNCHANGED << captionCount, calls >>

(***************************************************************************)
(* new Parser(new Lexer(input)).parse()                                    *)
(***************************************************************************)
ParseSource(document, src) ==
    /\ pc = "idle"
    /\ calls = 0
    /\ calls' = calls + 1
    /\ doc' = document
    /\ input' = src
    /\ \E parsed \in { Call("Parse", <<Lexer(src)>>) } :
           /\ lexer' = parsed.lexer
           /\ pc' = IF Failed(parsed.lexer) THEN "failed" ELSE "done"
           /\ error' = parsed.lexer.error
           /\ root' = IF Failed(parsed.lexer) THEN NullNode ELSE parsed.node
    /\ UNCHANGED << captionCount, options, entryCount, renderer, markup,
                    before, returned >>

ParseOf(document) == ParseSource(document, Source(document))

ParseDocument == \E document \in ParseDocuments : ParseOf(document)

NextParse == ParseDocument \/ Return

SpecParse == Init /\ [][NextParse]_vars

\* the environments of the document, in source order
RECURSIVE Envs(_)
Envs(document) ==
    IF document = <<>> THEN <<>>
    ELSE (IF IsEnv(Head(document)) THEN << Head(document) >> ELSE <<>>)
         \o Envs(Tail(document))

HasText(document) ==
    \E i \in 1..Len(document) : document[i].kind = "text"

\* C1: parse() returns a tree only if the whole input was consumed, and then
\* the lexer stands at EOF; a document with text outside its environments
\* is a parse failure; the tree returned has kind root and its children are
\* the top-level environments of the source, as many and in the same order
ParseConsumesAll ==
    /\ (pc = "done" =>
            /\ lexer.remain = ""
            /\ lexer.pos = Len(input)
            /\ lexer.currentAtom.type = "EOF"
            /\ root.type = "root"
            /\ Len(root.children) = Len(Envs(doc))
            /\ \A i \in 1..Len(root.children) :
                   root.children[i].type = Envs(doc)[i].kind)
    /\ (pc # "idle" /\ HasText(doc) =>
            pc = "failed" /\ error.name = "ParseError")

\* a tree of two environments was returned, with blank text between them
ParseConsumesAllWitness ==
    /\ pc = "done"
    /\ Len(doc) = MaxItems
    /\ \E i \in 1..Len(doc) : doc[i].kind = "algorithm"
    /\ Len(root.children) >= 1
    /\ Len(root.children) < Len(doc) \/ Len(root.children) > 1

\* the names of an environment item agree
WellClosed(item) ==
    /\ item.closes = item.kind
    /\ item.kind = "algorithm" => item.inner = "algorithmic"

\* C2: parsing fails with a parse failure unless the name in the \end of
\* every environment, top-level or nested, is the name in its \begin
EndMatchesBegin ==
    pc # "idle" /\ (\E i \in 1..Len(doc) : IsEnv(doc[i]) /\ ~WellClosed(doc[i]))
        => pc = "failed" /\ error.name = "ParseError"

(***************************************************************************)
(* renderToString(src, opts): var R = makeRenderer(src, opts), and then    *)
(* return R.toMarkup()                                                     *)
(***************************************************************************)
\* the first statement of renderToString(src, opts), for the document
\* document whose source text is src
MakeRendererOf(document, src, opts) ==
    /\ pc = "idle"
    /\ calls < MaxCalls
    /\ calls' = calls + 1
    /\ doc' = document
    /\ input' = src
    /\ options' = opts
    /\ entryCount' = captionCount
    /\ \E made \in { Call("MakeRenderer", <<src, opts, captionCount>>) } :
           /\ lexer' = made.lexer
           /\ root' = made.root
           /\ renderer' = made.renderer
           /\ captionCount' = made.captionCount
           /\ error' = made.error
           /\ pc' = IF made.error # NoError THEN "failed" ELSE "made"
    /\ UNCHANGED << markup, before, returned >>

\* the second statement of renderToString: return R.toMarkup()
ToMarkupStep ==
    /\ pc = "made"
    /\ \E built \in { Call("RendererToMarkup", <<renderer, captionCount>>) } :
           /\ renderer' = built.renderer
           /\ captionCount' = built.captionCount
           /\ error' = built.error
           /\ markup' = built.markup
           /\ pc' = IF built.error # NoError THEN "failed" ELSE "done"
    /\ UNCHANGED << calls, doc, input, options, entryCount, lexer, root,
                    before, returned >>

(***************************************************************************)
(* Render calls on documents of algorithm environments with captions       *)
(***************************************************************************)
MaxParts == 2

\* what an algorithm environment holds
CaptionParts == SeqsUpTo({"caption", "algorithmic"}, MaxParts)

CaptionItems ==
    { Env("algorithm", "algorithm", "algorithmic", parts) :
         parts \in CaptionParts }
    \cup { Env("algorithmic", "algorithmic", "", <<>>) }

Documents == SeqsUpTo(CaptionItems, MaxEnvs)

\* the value passed as the captionCount option
CountOption == 5

OptionsSet == { NoOptions, [NoOptions EXCEPT !.captionCount = <<CountOption>>] }

RenderToString ==
    \E document \in Documents, opts \in OptionsSet :
        MakeRendererOf(document, Source(document), opts)

Next == RenderToString \/ ToMarkupStep \/ Return

Spec == Init /\ [][Next]_vars

(***************************************************************************)
(* The Lexer on its own: new Lexer(input), and then the calls of accept    *)
(* and expect that the Parser makes, in any order                          *)
(***************************************************************************)
\* the inner texts of the math spans that are lexed
MathTexts == { "", "x", "x+y", "a b", "a\\$b", "a\\)b", "x\\" }

Dollar(t) == "$" \o t \o "$"
Paren(t) == "\\(" \o t \o "\\)"

LexerInputs ==
    { Dollar(t) : t \in MathTexts } \cup { Paren(t) : t \in MathTexts }
    \cup { "$x", "a $x+y", "\\(x", "$x\\$",
           "~~a''", "~a'", "''~~",
           "a & b", "a_b", "\\begin # x",
           "\\begin{algorithmic}\\STATE x\\end{algorithmic}",
           "\\BEGIN{algorithmic} % note\n \\If{a}\\end{foo}",
           " x % c\n\\\\ \\{ y", "" }

\* the kinds and texts that the Parser passes to accept and expect
AcceptTypes == { "func", "open", "ordinary", "math", "special", "quote" }
ExpectTypes == { "func", "open", "close", "ordinary", "EOF" }
LexerTexts ==
    { Undefined, Str("begin"), Str("END"), Str("algorithmic"),
      List(<< "if", "state", "begin" >>) }

\* new Lexer(src)
NewLexer(src) ==
    /\ pc = "idle"
    /\ calls < MaxCalls
    /\ calls' = calls + 1
    /\ input' = src
    /\ lexer' = Lexer(src)
    /\ pc' = IF Failed(Lexer(src)) THEN "failed" ELSE "lexing"
    /\ error' = Lexer(src).error
    /\ before' = NoLexer
    /\ returned' = NoReturn
    /\ UNCHANGED << captionCount, doc, options, entryCount, root, renderer,
                    markup >>

\* lexer.accept(type, text)
AcceptAtom(type, text) ==
    /\ pc = "lexing"
    /\ \E accepted \in { Accept(lexer, type, text) } :
           /\ lexer' = accepted.lexer
           /\ returned' = [method |-> "accept", type |-> type, text |-> text,
                           isNull |-> accepted.isNull,
                           value |-> accepted.text]
           /\ pc' = IF Failed(accepted.lexer) THEN "failed" ELSE "lexing"
           /\ error' = accepted.lexer.error
    /\ before' = lexer
    /\ UNCHANGED << captionCount, calls, doc, input, options, entryCount,
                    root, renderer, markup >>

\* lexer.expect(type, text); the Parser names a text only with the kinds
\* func and ordinary
ExpectAtom(type, text) ==
    /\ pc = "lexing"
    /\ text = Undefined \/ type \in { "func", "ordinary" }
    /\ \E expected \in { Expect(lexer, type, text) } :
           /\ lexer' = expected.lexer
           /\ returned' = [method |-> "expect", type |-> type, text |-> text,
                           isNull |-> Failed(expected.lexer),
                           value |-> expected.text]
           /\ pc' = IF Failed(expected.lexer) THEN "failed" ELSE "lexing"
           /\ error' = expected.lexer.error
    /\ before' = lexer
    /\ UNCHANGED << captionCount, calls, doc, input, options, entryCount,
                    root, renderer, markup >>

NextLexer ==
    \/ \E src \in LexerInputs : NewLexer(src)
    \/ \E type \in AcceptTypes, text \in LexerTexts : AcceptAtom(type, text)
    \/ \E type \in ExpectTypes, text \in LexerTexts : ExpectAtom(type, text)
    \/ Return

SpecLexer == Init /\ [][NextLexer]_vars

\* str ends with suffix
EndsWith(str, suffix) ==
    Len(str) >= Len(suffix)
    /\ SubSeq(str, Len(str) - Len(suffix) + 1, Len(str)) = suffix

\* t holds an occurrence of the closing delimiter that no backslash precedes
HasUnescaped(t, endDel) ==
    \E i \in 0..(Len(t) - Len(endDel)) :
        /\ Slice(t, i, i + Len(endDel)) = endDel
        /\ (i = 0 \/ CharAt(t, i - 1) # "\\")

\* the math atom with text t that stands first in the input
MathAtom(t) == [type |-> "math", text |-> t, whitespace |-> FALSE]

\* C9: for every inner text t, the empty text included, that holds no
\* unescaped closing delimiter, $t$ and \(t\) lex to equal math atoms whose
\* text is t; an input whose opening $ is never closed by an unescaped $
\* raises a parse error instead of giving an atom
MathAtomsStripped ==
    /\ \A t \in MathTexts :
          /\ (pc # "idle" /\ returned = NoReturn /\ input = Dollar(t)
                /\ ~HasUnescaped(t, "$"))
                => /\ pc = "lexing"
                   /\ lexer.nextAtom = MathAtom(t)
                   /\ ~HasUnescaped(t, "\\)")
                         => Lexer(Paren(t)).nextAtom = lexer.nextAtom
          /\ (pc # "idle" /\ returned = NoReturn /\ input = Paren(t)
                /\ ~HasUnescaped(t, "\\)"))
                => pc = "lexing" /\ lexer.nextAtom = MathAtom(t)
    /\ (pc # "idle" /\ returned = NoReturn /\ input \in { "$x", "$x\\$" })
          => pc = "failed" /\ error.name = "ParseError"

\* C14: where a quote mark starts the lexer takes the longest quote mark:
\* two grave accents are one quote atom, and so are two apostrophes
QuoteLongest ==
    (pc = "lexing" /\ returned = NoReturn)
        => /\ StartsWith(input, Backquote \o Backquote)
                => lexer.nextAtom.type = "quote"
                   /\ lexer.nextAtom.text = Backquote \o Backquote
           /\ StartsWith(input, "''")
                => lexer.nextAtom.type = "quote" /\ lexer.nextAtom.text = "''"

\* the last call was an expect that threw because the lookahead atom was
\* not the one expected
ExpectFailed ==
    /\ pc = "failed"
    /\ returned.method = "expect"
    /\ before.nextAtom.type # returned.type
          \/ ~MatchText(before, returned.text)

\* the excerpt of the input around offset pos: the caret at pos, between
\* the ContextLen characters before it and the ContextLen after it
Excerpt(str, pos) ==
    Slice(str, Max(0, pos - ContextLen), pos) \o Caret
    \o Slice(str, pos, pos + ContextLen)

\* C17: a failed expect raises a parse failure that carries the offset of
\* the failure and the excerpt of the input around it, the caret standing
\* between 15 characters of context before and 15 after (fewer only where
\* the input has fewer)
ExpectErrorExcerpt ==
    ExpectFailed =>
        /\ error.name = "ParseError"
        /\ EndsWith(error.message,
                    " at position " \o ToString(before.pos) \o ": "
                    \o Backquote \o Excerpt(input, before.pos) \o Backquote)

\* the exception was thrown by _next: by new Lexer, or by an accept or an
\* expect that had found the atom it looked for
LexicalError ==
    /\ pc = "failed"
    /\ \/ returned = NoReturn
       \/ /\ returned.method \in { "accept", "expect" }
          /\ before.nextAtom.type = returned.type
          /\ MatchText(before, returned.text)

\* C18: every lexical error, an unrecognizable character sequence or an
\* unterminated math span, is a parse failure whose message carries the
\* position of the failure and an excerpt of the input
LexicalErrorsHavePosition ==
    LexicalError =>
        /\ error.name = "ParseError"
        /\ \E pos \in 0..Len(input) :
               EndsWith(error.message,
                        " at position " \o ToString(pos) \o ": " \o Backquote
                        \o Slice(Slice(input, 0, pos) \o Caret
                                   \o SliceFrom(input, pos),
                                 Max(0, pos - ContextLen), pos + ContextLen)
                        \o Backquote)

\* a and b are the same text but for the case of the letters
SameIgnoringCase(a, b) == ToLowerCase(a) = ToLowerCase(b)

\* the lookahead atom of the lexer has the kind, and the text if one is
\* given, of the last call
LookaheadMatched ==
    /\ before.nextAtom.type = returned.type
    /\ CASE returned.text.kind = "undefined" -> TRUE
         [] returned.text.kind = "string" ->
               SameIgnoringCase(returned.text.str, before.nextAtom.text)
         [] returned.text.kind = "list" ->
               \E i \in DOMAIN returned.text.list :
                   SameIgnoringCase(returned.text.list[i],
                                    before.nextAtom.text)

Words(begin, name, if, endif, end) ==
    [begin |-> begin, name |-> name, if |-> if, endif |-> endif, end |-> end]

EnvNameVariants ==
    { "algorithm", "Algorithm", "ALGORITHM",
      "algorithmic", "Algorithmic", "ALGORITHMIC" }

IfVariants == { << "IF", "ENDIF" >>, << "if", "endif" >>, << "If", "EndIf" >> }

WordsDocuments ==
    { Words(begin, name, ifs[1], ifs[2], end) :
         begin \in { "begin", "BEGIN", "Begin" }, name \in EnvNameVariants,
         ifs \in IfVariants, end \in { "end", "END", "End" } }

\* the body of an algorithmic environment of a words document
WordsBody(words) ==
    "\\" \o words.if \o "{c}\\STATE x\\" \o words.endif

WordsSource(words) ==
    "\\" \o words.begin \o "{" \o words.name \o "}"
    \o (IF ToLowerCase(words.name) = "algorithm"
        THEN Begin("algorithmic") \o WordsBody(words) \o End("algorithmic")
        ELSE WordsBody(words))
    \o "\\" \o words.end \o "{" \o words.name \o "}"

ParseWords ==
    \E words \in WordsDocuments : ParseSource(words, WordsSource(words))

NextWords == ParseWords \/ Return

SpecWords == Init /\ [][NextWords]_vars

\* a words document was parsed
WordsParsed == pc \in { "done", "failed" } /\ doc \in WordsDocuments

\* C13: every word of the source vocabulary is recognized whatever the case
\* of its letters: \begin{X} opens the environment for every case variant X
\* of algorithm and algorithmic, as the command keywords are accepted in any
\* case
WordsAnyCase ==
    WordsParsed =>
        /\ pc = "done"
        /\ Len(root.children) = 1
        /\ root.children[1].type = ToLowerCase(doc.name)

(***************************************************************************)
(* Render calls with an indentSize option, on sources with and without     *)
(* errors                                                                  *)
(***************************************************************************)
\* the strings passed as the indentSize option
IndentSizes ==
    { "1.2em", "2em", "0.6em", " 1.5em ", "em", "1", "x", "m", "12", "1px",
      "2 emx", "emem", " ", "1.2 em", "1e", "2EM" }

IndentOptions ==
    { [NoOptions EXCEPT !.indentSize = << size >>] : size \in IndentSizes }

\* the sources: without error, with a character that is no atom at the
\* start or in a statement, with a math span never closed, and without
\* the \end of the environment
OptionSources ==
    [ good     |-> "\\begin{algorithmic}\\STATE x\\end{algorithmic}",
      empty    |-> "",
      first    |-> "& x",
      lexical  |-> "\\begin{algorithmic}\\STATE a & b\\end{algorithmic}",
      math     |-> "\\begin{algorithmic}\\STATE $x\\end{algorithmic}",
      syntax   |-> "\\begin{algorithmic}\\STATE x" ]

OptionDocuments == { [kind |-> kind] : kind \in DOMAIN OptionSources }

RenderWithOptions ==
    \E document \in OptionDocuments, opts \in IndentOptions :
        MakeRendererOf(document, OptionSources[document.kind], opts)

NextOptions == RenderWithOptions \/ ToMarkupStep \/ Return

SpecOptions == Init /\ [][NextOptions]_vars

\* the string given as the indentSize option of the call
GivenIndentSize == options.indentSize[1]

\* C15: for every non-empty string given as the indentSize option that does
\* not end with the unit suffix em, building the renderer options raises a
\* configuration error
BadUnitRejected ==
    (pc # "idle" /\ doc.kind \in { "good", "empty" }
       /\ GivenIndentSize # "" /\ ~EndsWith(Trim(GivenIndentSize), "em"))
        => pc = "failed" /\ error.name = "TypeError"

\* C16: a configuration error is raised before any parsing begins: a call
\* given an option value that the options reject and a source with a lexical
\* or syntax error raises the configuration error, and no atom of the input
\* was lexed when it is raised
OptionsErrorFirst ==
    (pc # "idle" /\ doc.kind \notin { "good", "empty" }
       /\ RendererOptions(options).error # NoError)
        => /\ pc = "failed"
           /\ error.name = "TypeError"
           /\ lexer.pos = 0

(***************************************************************************)
(* Render calls on an algorithmic environment of statements, each given by *)
(* its text                                                                *)
(***************************************************************************)
SizeCommands ==
    { "tiny", "scriptsize", "footnotesize", "small", "normalsize", "large",
      "Large", "LARGE", "huge", "Huge" }

\* a statement that issues the size command and writes x
SizeText(cmd) == "\\" \o cmd \o " x"

\* texts that declare a font, in the statement or in a brace group
FontTexts ==
    { "a", "\\bfseries a", "\\itshape b", "{\\bfseries a}{b}",
      "{\\Large a}{\\itshape b}" }

\* texts with a call after ordinary text, a math span or a brace group,
\* with and without whitespace before \CALL
CallTexts ==
    { element \o gap \o "\\CALL{f}{x}" :
         element \in { "a", "$m$", "{g}", "{g }" }, gap \in { "", " " } }

StatementTexts ==
    { SizeText(cmd) : cmd \in SizeCommands } \cup FontTexts \cup CallTexts

\* the documents: one statement, or two of which the first is no call
TextDocuments ==
    { << text >> : text \in StatementTexts }
    \cup { << first, second >> :
              first \in FontTexts \cup { SizeText("Large") },
              second \in FontTexts \cup CallTexts }

TextSource(texts) ==
    Begin("algorithmic")
    \o Join([i \in 1..Len(texts) |-> "\\STATE " \o texts[i] \o "\n"])
    \o End("algorithmic")

RenderTexts ==
    \E texts \in TextDocuments :
        MakeRendererOf(texts, TextSource(texts), NoOptions)

NextText == RenderTexts \/ ToMarkupStep \/ Return

SpecText == Init /\ [][NextText]_vars

\* C11: each of the ten size commands, as written in the source text, sets
\* the current scale of the TextStyle to its own entry of the size table and
\* records the previous current scale as the outer scale
SizeCommandsScale ==
    \A cmd \in SizeCommands :
        (pc = "done" /\ doc = << SizeText(cmd) >>)
            => /\ renderer.globalTextStyle.fontSize = SizingScalesTable[cmd]
               /\ renderer.globalTextStyle.outerFontSize = DefaultFontSize

Contains(str, sub) == IndexOf(str, sub) # -1

\* the text after the first occurrence of sub in str; str has one
After(str, sub) == SliceFrom(str, IndexOf(str, sub) + Len(sub))

\* the markup of the line of the second statement
LaterLine == After(After(markup, "<p "), "<p ")

\* the markup that follows the first span of the first line
LaterGroup == After(markup, "</span>")

\* the style attributes that the declarations written in a text set
Declared(text) ==
    UNION { IF Contains(text, "\\" \o cmd)
            THEN IF cmd \in DOMAIN FontCommandTable
                 THEN { FontCommandTable[cmd][i].attr :
                           i \in DOMAIN FontCommandTable[cmd] }
                 ELSE { "font-size" }
            ELSE {} : cmd \in { "bfseries", "itshape", "Large" } }

StyleAttrs ==
    { "font-family", "font-weight", "font-style", "font-variant",
      "font-size", "text-transform" }

\* C12: styling state never crosses sibling scopes: a font or size
\* declaration issued in one brace group, or in the text of one statement,
\* has no effect on the style attributes emitted for a sibling brace group
\* rendered later or for the line of a later statement
StyleStaysInScope ==
    /\ (pc = "done" /\ Len(doc) = 2)
          => \A attr \in StyleAttrs \ Declared(doc[2]) :
                 ~Contains(LaterLine, attr)
    /\ (pc = "done" /\ doc = << "{\\bfseries a}{b}" >>)
          => \A attr \in StyleAttrs : ~Contains(LaterGroup, attr)
    /\ (pc = "done" /\ doc = << "{\\Large a}{\\itshape b}" >>)
          => \A attr \in StyleAttrs \ Declared("\\itshape b") :
                 ~Contains(LaterGroup, attr)

FuncNameSpan == "<span class=\"ps-funcname\">"

\* the number of spaces that end str, counted up to two
SpacesAtEnd(str) ==
    IF EndsWith(str, "  ") THEN 2 ELSE IF EndsWith(str, " ") THEN 1 ELSE 0

\* the spaces of the markup right before the name of the function called
SpacesBeforeName ==
    SpacesAtEnd(Slice(markup, 0, IndexOf(markup, FuncNameSpan)))

\* C10: in a text run \CALL{f}{x} is rendered with exactly one space before
\* the function name when whitespace immediately precedes \CALL in the
\* source and with none when no whitespace does, whatever element comes
\* before it: ordinary text, a math span or a brace group
CallSpacing ==
    \A text \in CallTexts :
        (pc = "done" /\ doc = << text >>)
            => SpacesBeforeName =
                  (IF Contains(text, " \\CALL") THEN 1 ELSE 0)

(***************************************************************************)
(* Render calls on an algorithmic environment that holds one control or    *)
(* function construct, alone or in the block of another construct          *)
(***************************************************************************)
ConstructKinds ==
    { "if", "for", "forall", "while", "repeat", "upon", "function",
      "procedure" }

ElifWords == { "ELIF", "ELSIF", "ELSEIF" }

\* a construct of the kind, with its \ELIF branches as written and with or
\* without \ELSE if it is an if; lead comments stand first in each of its
\* blocks, and a late comment after the statement if late; it stands in the
\* block of a construct of kind outer unless outer is "none"
Construct(outer, kind, elifs, else, lead, late) ==
    [outer |-> outer, kind |-> kind, elifs |-> elifs, else |-> else,
     lead |-> lead, late |-> late]

MaxElifs == 2
MaxLead == 2

BlockDocuments ==
    { Construct(outer, kind, <<>>, FALSE, lead, late) :
         outer \in { "none", "if", "while", "function" },
         kind \in ConstructKinds, lead \in 0..MaxLead, late \in BOOLEAN }
    \cup { Construct(outer, "if", elifs, else, lead, FALSE) :
               outer \in { "none", "if" },
               elifs \in SeqsUpTo(ElifWords, MaxElifs), else \in BOOLEAN,
               lead \in 0..1 }

\* the text of a comment: the tag names its block, i its place
CommentOf(tag, i) == "\\COMMENT{k" \o tag \o ToString(i) \o "}"

\* the text of a block: the lead comments, a statement, the late comment
BlockText(document, tag) ==
    Join([i \in 1..document.lead |-> CommentOf(tag, i)])
    \o "\\STATE s" \o tag \o "\n"
    \o (IF document.late THEN CommentOf(tag, 0) ELSE "")

ConstructText(document) ==
    CASE document.kind = "if" ->
            "\\IF{c}" \o BlockText(document, "i")
            \o Join([i \in 1..Len(document.elifs) |->
                        "\\" \o document.elifs[i] \o "{c}"
                        \o BlockText(document, ToString(i))])
            \o (IF document.else
                THEN "\\ELSE" \o BlockText(document, "e") ELSE "")
            \o "\\ENDIF"
      [] document.kind = "for" ->
            "\\FOR{c}" \o BlockText(document, "b") \o "\\ENDFOR"
      [] document.kind = "forall" ->
            "\\FORALL{c}" \o BlockText(document, "b") \o "\\ENDFOR"
      [] document.kind = "while" ->
            "\\WHILE{c}" \o BlockText(document, "b") \o "\\ENDWHILE"
      [] document.kind = "repeat" ->
            "\\REPEAT" \o BlockText(document, "b") \o "\\UNTIL{c}"
      [] document.kind = "upon" ->
            "\\UPON{c}" \o BlockText(document, "b") \o "\\ENDUPON"
      [] document.kind = "function" ->
            "\\FUNCTION{f}{a}" \o BlockText(document, "b")
            \o "\\ENDFUNCTION"
      [] document.kind = "procedure" ->
            "\\PROCEDURE{f}{a}" \o BlockText(document, "b")
            \o "\\ENDPROCEDURE"

\* the construct in the block of the outer construct, before a statement
OuterText(outer, text) ==
    CASE outer = "none" -> text
      [] outer = "if" -> "\\IF{o}" \o text \o "\\STATE so\n\\ENDIF"
      [] outer = "while" ->
            "\\WHILE{o}" \o text \o "\\STATE so\n\\ENDWHILE"
      [] outer = "function" ->
            "\\FUNCTION{g}{y}" \o text \o "\\STATE so\n\\ENDFUNCTION"

BlockSource(document) ==
    Begin("algorithmic") \o "\n"
    \o OuterText(document.outer, ConstructText(document))
    \o End("algorithmic")

NoEndOptions == { NoOptions, [NoOptions EXCEPT !.noEnd = << TRUE >>] }

RenderBlocks ==
    \E document \in BlockDocuments, opts \in NoEndOptions :
        MakeRendererOf(document, BlockSource(document), opts)

NextBlocks == RenderBlocks \/ ToMarkupStep \/ Return

SpecBlocks == Init /\ [][NextBlocks]_vars

RECURSIVE ConcatAll(_)
ConcatAll(seqs) ==
    IF seqs = <<>> THEN <<>> ELSE Head(seqs) \o ConcatAll(Tail(seqs))

\* the nodes of a tree, a node before its children and these in order
RECURSIVE NodesOf(_)
NodesOf(node) ==
    << node >>
    \o ConcatAll([i \in 1..Len(node.children) |-> NodesOf(node.children[i])])

IfNodes(tree) == SelectSeq(NodesOf(tree), LAMBDA node : node.type = "if")

\* the number of places of str where sub stands
CountOf(str, sub) ==
    Cardinality({ i \in 0..(Len(str) - Len(sub)) :
                     Slice(str, i, i + Len(sub)) = sub })

\* the children of an if node are cond0, block0, ..., condN, blockN and
\* the else block if there is one
IfLayout(node) ==
    /\ Len(node.children)
          = 2 + 2 * node.value.numElif + (IF node.value.hasElse THEN 1 ELSE 0)
    /\ \A i \in 0..node.value.numElif :
          /\ node.children[2 * i + 1].type = "close-text"
          /\ node.children[2 * i + 2].type = "block"
    /\ node.value.hasElse => node.children[Len(node.children)].type = "block"

\* the number of if constructs of the document
IfCount == IF doc.outer = "if" THEN 2 ELSE 1

\* C19: every if node returned by the parser with numElif = n has 2 + 2n + 1
\* children when hasElse is true and 2 + 2n when it is false, laid out as
\* cond0, block0, ..., condN, blockN and the else block, whichever of \ELIF,
\* \ELSIF, \ELSEIF introduced each branch; the renderer reads them by
\* position and writes one line for each branch
IfChildrenLayout ==
    (pc # "idle" /\ doc.kind = "if") =>
        /\ pc # "failed"
        /\ Len(IfNodes(root)) = IfCount
        /\ \A j \in 1..IfCount : IfLayout(IfNodes(root)[j])
        /\ IfNodes(root)[IfCount].value
              = [numElif |-> Len(doc.elifs), hasElse |-> doc.else]
        /\ pc = "done" =>
              /\ CountOf(markup, "> then</span>") = IfCount + Len(doc.elifs)
              /\ CountOf(markup, ">else if </span>") = Len(doc.elifs)
              /\ CountOf(markup, ">else</span>")
                    = (IF doc.else THEN 1 ELSE 0)

\* an if with an \ELSIF branch, an \ELSEIF branch and \ELSE was parsed to
\* a node of seven children and rendered
IfChildrenLayoutWitness ==
    /\ pc = "done"
    /\ doc = Construct("none", "if", << "ELSIF", "ELSEIF" >>, TRUE, 1, FALSE)
    /\ Len(IfNodes(root)[1].children) = 7
    /\ IfNodes(root)[1].value.numElif = 2

KeywordSpan(keyword) == "<span class=\"ps-keyword\">" \o keyword \o "</span>"

\* the keyword of the end line of a construct; repeat has none
EndKeyword(kind) ==
    CASE kind = "if" -> "end if"
      [] kind \in { "for", "forall" } -> "end for"
      [] kind = "while" -> "end while"
      [] kind = "upon" -> "end upon"
      [] kind = "function" -> "end function"
      [] kind = "procedure" -> "end procedure"
      [] OTHER -> ""

\* the kinds of the constructs of the document, the outer one first
KindsOf(document) ==
    (IF document.outer = "none" THEN <<>> ELSE << document.outer >>)
    \o << document.kind >>

\* the number of constructs of the document whose end line has the keyword
EndsDue(document, keyword) ==
    Cardinality({ i \in DOMAIN KindsOf(document) :
                     EndKeyword(KindsOf(document)[i]) = keyword })

\* C3: for a valid input each if, loop, upon and function construct emits
\* exactly one end line when the option noEnd is not set and none when it is
\* set, at every nesting depth
EndLinesCount ==
    pc = "done" =>
        /\ \A kind \in ConstructKinds \ { "repeat" } :
              CountOf(markup, KeywordSpan(EndKeyword(kind)))
                 = (IF OrDefault(options.noEnd, FALSE) THEN 0
                    ELSE EndsDue(doc, EndKeyword(kind)))
        /\ CountOf(markup, ">end ")
              = (IF OrDefault(options.noEnd, FALSE) THEN 0
                 ELSE Len(SelectSeq(KindsOf(doc),
                                    LAMBDA kind : kind # "repeat")))

\* an upon construct in the block of a while loop was rendered with noEnd
\* set, and no end line was written
EndLinesCountWitness ==
    /\ pc = "done"
    /\ doc = Construct("while", "upon", <<>>, FALSE, 0, FALSE)
    /\ options.noEnd = << TRUE >>
    /\ Contains(markup, KeywordSpan("upon "))
    /\ ~Contains(markup, ">end ")

\* the last place before pos where sub stands in str, -1 if there is none
LastIndexBefore(str, sub, pos) ==
    Greatest({ -1 } \cup { i \in 0..(Min(pos, Len(str)) - Len(sub)) :
                              Slice(str, i, i + Len(sub)) = sub })

\* the first place from pos on where sub stands in str; there is one
IndexFrom(str, sub, pos) == pos + IndexOf(SliceFrom(str, pos), sub)

\* the tags of the blocks of the construct of the document
BlockTags(document) ==
    IF document.kind # "if" THEN { "b" }
    ELSE { "i" } \cup { ToString(i) : i \in 1..Len(document.elifs) }
         \cup (IF document.else THEN { "e" } ELSE {})

\* the keyword of the header line of the block with the tag
HeaderKeyword(document, tag) ==
    CASE tag = "i" -> "if "
      [] tag = "e" -> "else"
      [] tag # "b" -> "else if "
      [] document.kind = "forall" -> "for all "
      [] document.kind = "repeat" -> "repeat"
      [] OTHER -> document.kind \o " "

\* where the statement of the block stands in the markup, where the group
\* of the block is opened and closed, and where the line before the group
\* starts and ends
StatementAt(tag) == IndexOf(markup, "\ns" \o tag)
GroupAt(tag) == LastIndexBefore(markup, "<div class=\"ps-block\"", StatementAt(tag))
GroupEnd(tag) == IndexFrom(markup, "</div>", StatementAt(tag))
HeaderEnd(tag) == LastIndexBefore(markup, "</p>", GroupAt(tag))
HeaderAt(tag) == LastIndexBefore(markup, "<p ", HeaderEnd(tag))

\* where the i-th comment of the block stands; the late comment is i = 0
CommentAt(tag, i) == IndexOf(markup, "k" \o tag \o ToString(i))

\* C4: for every control or function construct (function, procedure, if
\* and each of its elif and else branches, for, forall, while, repeat, upon)
\* the comments that lead the block of the construct are emitted on the
\* header line of the construct, while that line is open and before the
\* group of the block is opened, and not in the body; a comment that does
\* not lead the block stays in the body
LeadingCommentsOnHeader ==
    pc = "done" =>
        \A tag \in BlockTags(doc) :
            /\ Contains(Slice(markup, HeaderAt(tag), HeaderEnd(tag)),
                        KeywordSpan(HeaderKeyword(doc, tag)))
            /\ HeaderEnd(tag) + Len("</p>\n") = GroupAt(tag)
            /\ \A i \in 1..doc.lead :
                  /\ HeaderAt(tag) < CommentAt(tag, i)
                  /\ CommentAt(tag, i) < HeaderEnd(tag)
                  /\ i > 1 => CommentAt(tag, i - 1) < CommentAt(tag, i)
                  /\ CountOf(markup, "k" \o tag \o ToString(i)) = 1
            /\ doc.late =>
                  /\ StatementAt(tag) < CommentAt(tag, 0)
                  /\ CommentAt(tag, 0) < GroupEnd(tag)
                  /\ CountOf(markup, "k" \o tag \o "0") = 1

\* a repeat construct with two comments leading its block and one after
\* its statement was rendered in the block of a function
LeadingCommentsOnHeaderWitness ==
    /\ pc = "done"
    /\ doc = Construct("function", "repeat", <<>>, FALSE, 2, TRUE)
    /\ Contains(markup, KeywordSpan("repeat")
                          \o "<span class=\"ps-comment\">")
    /\ CommentAt("b", 2) < GroupAt("b")
    /\ GroupAt("b") < CommentAt("b", 0)

(***************************************************************************)
(* The caption counter and the caption lines                               *)
(***************************************************************************)
\* the places of the captions among the parts of an item
CaptionsAt(item) == { j \in DOMAIN item.parts : item.parts[j] = "caption" }

\* the algorithm environments of the document that hold a caption
Captioned(document) ==
    { i \in DOMAIN document : CaptionsAt(document[i]) # {} }

\* Renderer.captionCount when the first node of the call is rendered
StartCount == OrDefault(options.captionCount, entryCount)

\* C5: rendering one algorithm environment that holds k >= 1 captions
\* advances the caption counter by exactly 1, once for the algorithm and not
\* once for each caption; rendering an algorithm environment without
\* caption leaves the counter unchanged
CounterOncePerAlgorithm ==
    pc = "done" => captionCount = StartCount + Cardinality(Captioned(doc))

\* the line of the caption with the number and the text
CaptionLine(number, text) ==
    KeywordSpan("Algorithm " \o ToString(number) \o " ") \o text \o "</p>"

\* the document is two algorithm environments of one caption each
TwoCaptioned ==
    /\ Len(doc) = 2
    /\ \A i \in 1..2 : Cardinality(CaptionsAt(doc[i])) = 1

\* the text of the caption of the i-th item, which has one
OnlyCaption(i) == CaptionText(i, CHOOSE j \in CaptionsAt(doc[i]) : TRUE)

\* the caption lines of the two environments have the numbers first and
\* first + 1, in that order
NumberedFrom(first) ==
    /\ Contains(markup, CaptionLine(first, OnlyCaption(1)))
    /\ Contains(markup, CaptionLine(first + 1, OnlyCaption(2)))
    /\ IndexOf(markup, OnlyCaption(1)) < IndexOf(markup, OnlyCaption(2))

\* C6: rendering in one call an input of two sequential algorithm
\* environments of one caption each gives caption lines numbered N and
\* N + 1, in that order, N being the value of the caption counter entering
\* the call
CaptionsNumberedFromN ==
    (pc = "done" /\ TwoCaptioned /\ options.captionCount = <<>>)
        => NumberedFrom(entryCount)

\* C6 as the code has it: the caption lines are numbered N + 1 and N + 2,
\* in that order, N being the value of the caption counter when the first
\* node is rendered: its value entering the call, or the option
\* captionCount if given
CaptionsNumberedAfterN ==
    (pc = "done" /\ TwoCaptioned) => NumberedFrom(StartCount + 1)

\* the second call rendered two algorithm environments of one caption each
\* after the first call had left the counter at 4
CaptionsNumberedAfterNWitness ==
    /\ pc = "done"
    /\ TwoCaptioned
    /\ options.captionCount = <<>>
    /\ entryCount = 4
    /\ Contains(markup, CaptionLine(6, OnlyCaption(2)))

\* the places of the algorithmic environments among the parts of an item
AlgorithmicsAt(item) ==
    { j \in DOMAIN item.parts : item.parts[j] = "algorithmic" }

CounterNeverReset ==
    [][ /\ (pc = "idle" /\ pc' = "made")
            => captionCount' = OrDefault(options'.captionCount, captionCount)
        /\ pc' = "idle" => captionCount' = captionCount ]_vars

\* a second call made without the option captionCount has its renderer,
\* the counter standing where the first call left it, at 2
CounterNeverResetWitness ==
    /\ pc = "made"
    /\ calls = 2
    /\ options.captionCount = <<>>
    /\ entryCount = 2
    /\ captionCount = 2

(***************************************************************************)
(* Render calls on one or two algorithmic environments that hold           *)
(* statements, comments and constructs, with and without line numbers and  *)
(* end lines                                                               *)
(***************************************************************************)
LineItemKinds == { "require", "state", "styled", "comment", "if", "nest" }

\* the source text of an item of an algorithmic environment
LineItemText(kind) ==
    CASE kind = "require" -> "\\REQUIRE r\n"
      [] kind = "state" -> "\\STATE s\n"
      [] kind = "styled" ->
            "\\STATE {\\bfseries a} \\textit{b} \\CALL{f}{x} \\Large y\n"
      [] kind = "comment" -> "\\COMMENT{k}"
      [] kind = "if" -> "\\IF{c}\\STATE t\n\\ENDIF"
      [] kind = "nest" ->
            "\\WHILE{c}\\IF{d}\\STATE u\n\\ENDIF\\ENDWHILE"

MaxBody == 2

\* what an algorithmic environment holds
LineBodies == SeqsUpTo(LineItemKinds, MaxBody)

\* the environments that stand first and second in a document of two
FirstBodies == { << "state" >>, << "require", "nest" >>, << "if", "state" >> }
SecondBodies == { << "state" >>, << "require", "state" >>, << "nest" >> }

LineDocuments ==
    { << body >> : body \in LineBodies }
    \cup { << first, second >> :
              first \in FirstBodies, second \in SecondBodies }

LineBodyText(body) ==
    Begin("algorithmic") \o "\n"
    \o Join([i \in 1..Len(body) |-> LineItemText(body[i])])
    \o End("algorithmic") \o "\n"

LineSource(document) ==
    Join([i \in 1..Len(document) |-> LineBodyText(document[i])])

LineOptions ==
    { [NoOptions EXCEPT !.lineNumber = numbered, !.noEnd = ends] :
         numbered \in { <<>>, << TRUE >> }, ends \in { <<>>, << TRUE >> } }

RenderLines ==
    \E document \in LineDocuments, opts \in LineOptions :
        MakeRendererOf(document, LineSource(document), opts)

NextLines == RenderLines \/ ToMarkupStep \/ Return

SpecLines == Init /\ [][NextLines]_vars

\* what the HTMLBuilder of the Renderer holds: the strings pushed, in order
Emitted == renderer.html.body

IsBeginP(str) == StartsWith(str, "<p ")
IsEndP(str) == str = "</p>"
IsBeginDiv(str) == StartsWith(str, "<div")
IsEndDiv(str) == str = "</div>"

\* the number of the first n strings pushed that satisfy Test
Pushed(Test(_), n) == Cardinality({ i \in 1..n : Test(Emitted[i]) })

\* the line elements opened and not yet closed after n strings are pushed
LinesOpen(n) == Pushed(IsBeginP, n) - Pushed(IsEndP, n)

\* C21: at most one line element is open at every point of the emitted
\* markup and lines never nest; the open-line flag is true exactly when a
\* line element is opened and not yet closed; no group or block is opened
\* or closed while a line is open; no line is open when rendering finishes
OneOpenLine ==
    pc \in { "made", "done" } =>
        /\ \A n \in 0..Len(Emitted) : LinesOpen(n) \in { 0, 1 }
        /\ \A n \in 1..Len(Emitted) :
               (IsBeginDiv(Emitted[n]) \/ IsEndDiv(Emitted[n]))
                   => LinesOpen(n - 1) = 0
        /\ renderer.openLine = (LinesOpen(Len(Emitted)) = 1)
        /\ pc = "done" => ~renderer.openLine

\* a line is opened right after another is closed, and a block is closed
\* right after its last line is
OneOpenLineWitness ==
    /\ pc = "done"
    /\ Pushed(IsBeginP, Len(Emitted)) >= 3
    /\ \E n \in 3..Len(Emitted) :
           IsBeginP(Emitted[n]) /\ IsEndP(Emitted[n - 2])
    /\ \E n \in 3..Len(Emitted) :
           IsEndDiv(Emitted[n]) /\ IsEndP(Emitted[n - 2])

IsBlockDiv(str) == StartsWith(str, "<div class=\"ps-block\"")
IsCodeLine(str) == StartsWith(str, "<p class=\"ps-line ps-code\"")
IsLineNum(str) == StartsWith(str, "<span class=\"ps-linenum\"")

RECURSIVE OpenDivs(_)
\* the groups opened and not yet closed after n strings are pushed, the
\* outermost first
OpenDivs(n) ==
    IF n = 0 THEN <<>>
    ELSE IF IsBeginDiv(Emitted[n]) THEN Append(OpenDivs(n - 1), Emitted[n])
    ELSE IF IsEndDiv(Emitted[n])
    THEN SubSeq(OpenDivs(n - 1), 1, Len(OpenDivs(n - 1)) - 1)
    ELSE OpenDivs(n - 1)

\* the blocks that enclose the n-th string pushed
BlocksOpen(n) == Len(SelectSeq(OpenDivs(n), IsBlockDiv))

\* the line-number span of a line at nesting depth level
LineNumSpan(level) ==
    "<span class=\"ps-linenum\" style=\"left:"
    \o NumberToString(Negate((level - 1)
                              * Times(renderer.options.indentSize, 125)))
    \o "em;\">"

\* C22: the nesting depth, as every line opened shows it, equals the number
\* of blocks that enclose the line; it is never negative, it is the same
\* after a block as before it, and it is 0 when rendering finishes
DepthIsBlockNesting ==
    pc \in { "made", "done" } =>
        /\ renderer.blockLevel >= 0
        /\ pc = "done" => renderer.blockLevel = 0
        /\ \A n \in 1..Len(Emitted) :
               /\ IsBeginP(Emitted[n])
                     => (IsCodeLine(Emitted[n]) <=> BlocksOpen(n) > 0)
               /\ IsLineNum(Emitted[n])
                     => Emitted[n] = LineNumSpan(BlocksOpen(n))

\* a numbered line inside three blocks, and a later one inside one block
DepthIsBlockNestingWitness ==
    /\ pc = "done"
    /\ \E n \in 1..Len(Emitted), m \in 1..Len(Emitted) :
           /\ n < m
           /\ IsLineNum(Emitted[n]) /\ BlocksOpen(n) = 3
           /\ IsLineNum(Emitted[m]) /\ BlocksOpen(m) = 1

IsAlgorithmicDiv(str) == StartsWith(str, "<div class=\"ps-algorithmic")

\* where the algorithmic environment of the n-th string pushed begins
EnvironmentAt(n) ==
    Greatest({ i \in 1..n : IsAlgorithmicDiv(Emitted[i]) } \cup { 1 })

\* the code lines opened in its environment up to the n-th string pushed
CodeLinesSince(n) ==
    Cardinality({ i \in EnvironmentAt(n)..n : IsCodeLine(Emitted[i]) })

\* the n-th string pushed, "" if there is none
EmittedAt(n) == IF n \in 1..Len(Emitted) THEN Emitted[n] ELSE ""

IsCommentSpan(str) == StartsWith(str, "<span class=\"ps-comment\"")

\* C24: rendering a comment node never opens and never closes a line, and
\* every comment segment ends up inside a line: for every valid input and
\* every option setting a line is open when a comment node is rendered
CommentsInsideLines ==
    pc = "done" =>
        \A n \in 1..Len(Emitted) :
            IsCommentSpan(Emitted[n]) => LinesOpen(n) = 1

\* the tag that begins at the first < of str
FirstTag(str) ==
    Slice(str, IndexOf(str, "<"), IndexFrom(str, ">", IndexOf(str, "<")) + 1)

IsEndTag(tag) == StartsWith(tag, "</")
IsVoidTag(tag) == EndsWith(tag, "/>")

\* the name of the element that tag opens or closes
TagName(tag) ==
    IF IsEndTag(tag) THEN Slice(tag, 2, Len(tag) - 1)
    ELSE IF IndexOf(tag, " ") = -1 THEN Slice(tag, 1, Len(tag) - 1)
    ELSE Slice(tag, 1, IndexOf(tag, " "))

RECURSIVE WellFormedFrom(_, _)
\* str is well-formed inside the open elements of stack, the innermost
\* last, and closes them all: every end tag closes the innermost open
\* element, and no div is opened inside a p
WellFormedFrom(str, stack) ==
    IF IndexOf(str, "<") = -1 THEN stack = <<>>
    ELSE IF IsVoidTag(FirstTag(str))
    THEN WellFormedFrom(After(str, FirstTag(str)), stack)
    ELSE IF IsEndTag(FirstTag(str))
    THEN /\ stack # <<>>
         /\ stack[Len(stack)] = TagName(FirstTag(str))
         /\ WellFormedFrom(After(str, FirstTag(str)),
                           SubSeq(stack, 1, Len(stack) - 1))
    ELSE /\ TagName(FirstTag(str)) \in { "div", "p", "span" }
         /\ TagName(FirstTag(str)) = "div"
               => \A i \in 1..Len(stack) : stack[i] # "p"
         /\ WellFormedFrom(After(str, FirstTag(str)),
                           Append(stack, TagName(FirstTag(str))))

\* C26: the markup emitted by the renderer is well-formed: every opened
\* div, p and span element is closed, each closing tag closes the most
\* recently opened element that is still open, and a line (p) never
\* contains a group (div)
MarkupWellFormed == pc = "done" => WellFormedFrom(markup, <<>>)

\* the markup of a line with nested styled spans, inside nested groups
MarkupWellFormedWitness ==
    /\ pc = "done"
    /\ Contains(markup, "<span style=\"font-weight:bold;\">a</span>")
    /\ Contains(markup, "ps-funcname")
    /\ CountOf(markup, "<div class=\"ps-block\"") >= 3
    /\ CountOf(markup, "</span>") >= 6

(***************************************************************************)
(* Render calls on an algorithmic environment of one statement whose text  *)
(* holds a font or size declaration, a font command or a brace group; the  *)
(* capital letters are the ordinary atoms of the text                      *)
(***************************************************************************)
Markers == { "A", "B", "C", "D", "X", "Y" }

MarkersOf(str) == { c \in Markers : Contains(str, c) }

\* a text of the form: inside are the atoms that the declaration or the
\* command of the text applies to as written, outside its other atoms;
\* spaced tells whether whitespace stands right before the brace group
StyleDoc(form, text, inside, outside, spaced) ==
    [form |-> form, text |-> text, inside |-> MarkersOf(inside),
     outside |-> MarkersOf(outside), spaced |-> spaced]

Declarations == { "bfseries", "itshape", "Large" }
FontCommands == { "textbf", "textit" }
SiblingTexts == { "A", "A B", "A{B}", "A {B} D" }
GroupTexts == { "A", "A B", "A{B}" }
Gaps == { "", " " }

\* a declaration in a brace group, with text before it in the group and
\* text before and after the group
DclrDocuments ==
    { StyleDoc("dclr",
               pre \o "{" \o lead \o "\\" \o dclr \o " " \o sibs \o "}"
                   \o post,
               sibs, pre \o lead \o post, FALSE) :
         pre \in { "", "Y " }, lead \in { "", "X " }, dclr \in Declarations,
         sibs \in SiblingTexts, post \in { "", " C", "{C}" } }

\* a declaration in the text of the statement
OpenDocuments ==
    { StyleDoc("open", lead \o "\\" \o dclr \o " " \o sibs, sibs, lead,
               FALSE) :
         lead \in { "", "X " }, dclr \in Declarations,
         sibs \in SiblingTexts }

\* a font command and its brace group, with text before and after them
CmdDocuments ==
    { StyleDoc("cmd", pre \o "\\" \o cmd \o "{" \o group \o "}" \o post,
               group, pre \o post, FALSE) :
         pre \in { "", "Y " }, cmd \in FontCommands, group \in GroupTexts,
         post \in { "", "C", " C", "{C}" } }

\* a font command that no brace group follows
BareDocuments ==
    { StyleDoc("bare", text, "", text, FALSE) :
         text \in { "\\textbf A", "X \\textit A", "X \\textbf $m$ A",
                    "\\textbf", "X \\textit", "{\\textbf} A",
                    "{X \\textit}" } }

\* a brace group between two atoms, with and without whitespace before the
\* group, in it and after it
GroupDocuments ==
    { StyleDoc("group",
               "A" \o before1 \o "{" \o inner1 \o "B" \o inner2 \o "}"
                   \o after1 \o "C",
               "B", "AC", before1 = " ") :
         before1 \in Gaps, inner1 \in Gaps, inner2 \in Gaps,
         after1 \in Gaps }

StyleDocuments ==
    DclrDocuments \cup OpenDocuments \cup CmdDocuments \cup BareDocuments
    \cup GroupDocuments

RenderStyles ==
    \E document \in StyleDocuments :
        MakeRendererOf(document, TextSource(<< document.text >>), NoOptions)

NextStyles == RenderStyles \/ ToMarkupStep \/ Return

SpecStyles == Init /\ [][NextStyles]_vars

\* the part of str between the first open and the first close after it
Between(str, open, close) ==
    Slice(After(str, open), 0, IndexOf(After(str, open), close))

\* what the line of the statement holds
StatementLine == Between(markup, "<p class=\"ps-line ps-code\">\n", "</p>")

StyledSpan == "<span style="

\* what the first styled span of the line holds
InStyledSpan == Between(StatementLine, StyledSpan, "</span>")

\* C25: a font or size declaration produces one styled span that contains
\* every subsequent sibling of its list and nothing outside the list; a
\* font command followed by a brace group produces one styled span that
\* contains the rendering of the group's content, once, and none of the
\* siblings that follow the group
StyledSpanScope ==
    (pc \in { "done", "failed" } /\ doc.form \in { "dclr", "open", "cmd" })
        => /\ pc = "done"
           /\ CountOf(StatementLine, StyledSpan) = 1
           /\ CountOf(StatementLine, "<span") = 1
           /\ \A c \in Markers :
                 /\ CountOf(StatementLine, c)
                       = (IF c \in doc.inside \cup doc.outside THEN 1 ELSE 0)
                 /\ Contains(InStyledSpan, c) <=> c \in doc.inside

\* a declaration with text before it, a group after it and the group's
\* closing brace and more text behind; a command with its group and a
\* group that follows
StyledSpanScopeWitness ==
    /\ pc = "done"
    /\ \/ /\ doc.form = "dclr"
          /\ doc.inside = { "A", "B", "D" }
          /\ doc.outside = { "X", "Y", "C" }
       \/ /\ doc.form = "cmd"
          /\ doc.inside = { "A", "B" }
          /\ doc.outside = { "Y", "C" }
    /\ Contains(StatementLine, StyledSpan)

\* C30: a font command that is not immediately followed by a brace group
\* is skipped by the text renderer: it emits no styled span, raises no
\* error, and rendering continues with the nodes that follow it, including
\* when the font command is the last node of its text run
FontCommandSkipped ==
    (pc \in { "done", "failed" } /\ doc.form = "bare")
        => /\ pc = "done"
           /\ error = NoError
           /\ ~Contains(StatementLine, "<span")
           /\ \A c \in Markers :
                 CountOf(StatementLine, c)
                    = (IF c \in doc.outside THEN 1 ELSE 0)

\* the same for the font commands that a node follows in their text run
FontCommandSkippedBeforeNode ==
    (pc \in { "done", "failed" } /\ doc.form = "bare"
       /\ doc.text \in { "\\textbf A", "X \\textit A", "X \\textbf $m$ A" })
        => FontCommandSkipped

\* the node of the brace group of the text: the second child of the text
\* of the statement
GroupNode ==
    root.children[1].children[1].children[1].children[1].children[2]

\* C29: the preceding-whitespace flag of a brace group is true exactly when
\* whitespace immediately precedes the opening brace of the group in the
\* source, independently of any whitespace inside the group, so that a
\* separating space is emitted before the group's content exactly in that
\* case
GroupWhitespaceFlag ==
    (pc \in { "made", "done" } /\ doc.form = "group")
        => /\ GroupNode.type = "close-text"
           /\ GroupNode.whitespace = doc.spaced
           /\ pc = "done"
                 => (Contains(StatementLine, "A B") <=> doc.spaced)

(***************************************************************************)
(* Parse calls on a document with one more command written between two of  *)
(* its pieces                                                              *)
(***************************************************************************)
\* the pieces of the documents; the \foo of the second stands in a math
\* span and in a % comment
CommandBases ==
    << << "\\begin{algorithm}", "\\caption{t}", "\\begin{algorithmic}",
          "\\REQUIRE r ", "\\IF{c}", "\\STATE s ", "\\ELSE", "\\BREAK",
          "\\ENDIF", "\\end{algorithmic}", "\\end{algorithm}" >>,
       << "\\begin{algorithmic}", "\\REPEAT", "\\STATE \\textbf{a} \\AND ",
          "\\CALL{f}{x} ", "\\COMMENT{k}", "\\UNTIL{c}", "\\WHILE{d}",
          "\\PRINT p $\\foo$ % \\foo\n", "\\ENDWHILE",
          "\\end{algorithmic}" >> >>

\* commands that the grammar allows nowhere in the documents: one outside
\* the vocabulary, and the words of constructs that are closed or absent
Misplaced == { "\\foo", "\\ELSE", "\\ENDIF", "\\UNTIL{c}", "\\ENDWHILE" }

\* commands that the grammar allows at some places
Placeable ==
    { "\\REQUIRE q ", "\\caption{x}", "\\STATE v ", "\\textit",
      "\\CONTINUE", "\\Large " }

\* the document of the pieces of base with stray after the first at pieces
CommandDoc(base, stray, at) == [base |-> base, stray |-> stray, at |-> at]

CommandDocuments ==
    { CommandDoc(base, stray, at) :
         base \in DOMAIN CommandBases, stray \in Misplaced \cup Placeable,
         at \in 0..Len(CommandBases[1]) }
    \cup { CommandDoc(base, "", 0) : base \in DOMAIN CommandBases }

CommandSource(document) ==
    LET pieces == CommandBases[document.base]
        at == Min(document.at, Len(pieces))
    IN  JoinRange(pieces, 1, at) \o document.stray
        \o JoinRange(pieces, at + 1, Len(pieces))

ParseCommands ==
    \E document \in CommandDocuments :
        ParseSource(document, CommandSource(document))

NextCommands == ParseCommands \/ Return

SpecCommands == Init /\ [][NextCommands]_vars

RECURSIVE CommandAtomsFrom(_)
\* the command atoms that the lexer has yet to give
CommandAtomsFrom(lex) ==
    IF Failed(lex) \/ lex.nextAtom.type = "EOF" THEN 0
    ELSE (IF lex.nextAtom.type = "func" THEN 1 ELSE 0)
         + CommandAtomsFrom(LexerNext(lex))

\* the commands that the production of a node names and consumes itself
OwnCommands(node) ==
    CASE node.type \in { "algorithm", "algorithmic", "loop", "repeat",
                         "upon", "function" } -> 2
      [] node.type = "if" ->
            2 + node.value.numElif + (IF node.value.hasElse THEN 1 ELSE 0)
      [] node.type \in { "caption", "statement", "command", "comment",
                         "call", "cond-symbol", "sizing-dclr", "font-dclr",
                         "font-cmd", "text-symbol" } -> 1
      [] OTHER -> 0

RECURSIVE CommandsIn(_)
RECURSIVE CommandsInAll(_)
\* the commands consumed by the productions of the tree of node
CommandsIn(node) == OwnCommands(node) + CommandsInAll(node.children)

CommandsInAll(nodes) ==
    IF nodes = <<>> THEN 0
    ELSE CommandsIn(Head(nodes)) + CommandsInAll(Tail(nodes))

\* C27: no command is silently swallowed when a text or block production
\* ends: if parsing succeeds, every command atom of the input (outside math
\* spans and % comments) was consumed by a production that names it, and an
\* input with a command outside the vocabulary, or with a recognized
\* command where the grammar does not allow it, ends in a parse failure
NoCommandSwallowed ==
    /\ pc = "done" => CommandAtomsFrom(Lexer(input)) = CommandsIn(root)
    /\ (pc \in { "done", "failed" } /\ doc.stray \in Misplaced)
          => pc = "failed" /\ error.name = "ParseError"

\* an unknown command right after the text of a statement, where the text
\* and the block of the statement end
NoCommandSwallowedWitness ==
    /\ pc = "failed"
    /\ doc = CommandDoc(1, "\\foo", 6)
    /\ lexer.nextAtom.type = "func" /\ lexer.nextAtom.text = "foo"

\* a document with one more command that the grammar allows is parsed
CommandPlaced ==
    /\ pc = "done"
    /\ doc.stray \in Placeable
    /\ CommandsIn(root) >= 12

(***************************************************************************)
(* The loops of the Lexer, the Parser and the TextEnvironment, one turn at *)
(* a time: a turn of any loop of the Parser is taken wherever the Lexer    *)
(* stands, and the loop of renderToHTML runs over the nodes of a text      *)
(***************************************************************************)
LoopInputs ==
    { "\\begin{algorithm}\\caption{t}\\begin{algorithmic}\\IF{c}\\STATE s"
          \o "\\ELIF{d}\\BREAK\\ENDIF\\end{algorithmic}\\end{algorithm}",
      "\\REQUIRE r \\WHILE{c}\\COMMENT{k}\\ENDWHILE\\STATE t",
      " a {b} $m$ \\AND % note\n \\CALL{f}{x}",
      "\\( x \\$ y", "a & b", "" }

TextInputs ==
    { "a {b} \\textbf{c} d", "x \\Large y {z \\itshape w} \\CALL{f}{a}",
      "$m$ \\AND b \\textit", "" }

\* the loops of the Parser, by the operator of one turn
ParserLoops ==
    { "ParseTurn", "ParseAlgorithmTurn", "ParseAlgorithmicTurn",
      "ParseBlockTurn", "ParseElifTurn", "ParseTextTurn" }

\* the turn of a loop has ended as turn: the loop goes round again
Continues(loop, turn) ==
    /\ ~Failed(turn.lexer)
    /\ IF loop = "ParseElifTurn" THEN ~turn.isNull ELSE ~IsNull(turn.node)

TurnReturn(loop, continues) ==
    [method |-> loop, type |-> "", text |-> Undefined,
     isNull |-> ~continues, value |-> ""]

\* one more atom is taken: this._next() in accept or expect; at EOF the
\* consumer stops
ScanAtom ==
    /\ pc = "lexing"
    /\ \E next \in { Call("LexerNext", << lexer >>) } :
           IF lexer.nextAtom.type = "EOF"
           THEN /\ pc' = "done"
                /\ UNCHANGED << lexer, error, before, returned >>
           ELSE /\ lexer' = next
                /\ pc' = IF Failed(next) THEN "failed" ELSE "lexing"
                /\ error' = next.error
                /\ before' = lexer
                /\ returned' = TurnReturn("LexerNext", ~Failed(next))
    /\ UNCHANGED << captionCount, calls, doc, input, options, entryCount,
                    root, renderer, markup >>

\* one turn of a loop of the Parser, with the value that anyWhitespace has
\* if the loop is that of _parseText
LoopTurn(loop, anyWhitespace) ==
    /\ pc = "lexing"
    /\ \E turn \in { Call(loop, IF loop = "ParseTextTurn"
                                THEN << lexer, anyWhitespace >>
                                ELSE << lexer >>) } :
           /\ lexer' = turn.lexer
           /\ pc' = IF Failed(turn.lexer) THEN "failed"
                    ELSE IF Continues(loop, turn) THEN "lexing" ELSE "done"
           /\ error' = turn.lexer.error
           /\ returned' = TurnReturn(loop, Continues(loop, turn))
    /\ before' = lexer
    /\ UNCHANGED << captionCount, calls, doc, input, options, entryCount,
                    root, renderer, markup >>

\* new TextEnvironment(nodes, textStyle) for the nodes of the text src:
\* root.children is this._nodes, renderer.html is this._html and
\* renderer.globalTextStyle is this._textStyle
NewTextEnvironment(src) ==
    /\ pc = "idle"
    /\ calls < MaxCalls
    /\ calls' = calls + 1
    /\ input' = src
    /\ \E parsed \in { Call("ParseText", << Lexer(src), "open" >>) } :
           /\ lexer' = parsed.lexer
           /\ root' = parsed.node
           /\ error' = parsed.lexer.error
           /\ pc' = IF Failed(parsed.lexer) THEN "failed" ELSE "rendering"
    /\ UNCHANGED << captionCount, doc, options, entryCount, renderer,
                    markup, before, returned >>

\* this._nodes after this._nodes.shift() that leaves the node in the array
NoShift(nodes) == nodes

\* this._nodes after this._nodes.shift()
Shift(nodes) == Tail(nodes)

\* one turn of the while loop of renderToHTML: this._nodes.shift(), and the
\* body of the loop for the node shifted; before is this._nodes before the
\* turn
RenderNext ==
    /\ pc = "rendering"
    /\ IF root.children = <<>>
       THEN /\ pc' = "done"
            /\ UNCHANGED << root, renderer, error, before, returned >>
       ELSE \E env \in { Call("RenderNode",
                              << TextEnv(renderer.html, Shift(root.children),
                                         renderer.globalTextStyle),
                                 Head(root.children), Backend >>) } :
               /\ root' = [root EXCEPT !.children = env.nodes]
               /\ renderer' = [renderer EXCEPT
                                  !.html = env.html,
                                  !.globalTextStyle = env.textStyle]
               /\ error' = env.error
               /\ pc' = IF env.error # NoError THEN "failed"
                        ELSE "rendering"
               /\ before' = root.children
               /\ returned' = TurnReturn("RenderNode", env.error = NoError)
    /\ UNCHANGED << captionCount, calls, doc, input, options, entryCount,
                    lexer, markup >>

Turns ==
    \/ ScanAtom
    \/ \E loop \in ParserLoops, anyWhitespace \in BOOLEAN :
           LoopTurn(loop, anyWhitespace)
    \/ RenderNext

NextLoops ==
    \/ \E src \in LoopInputs : NewLexer(src)
    \/ \E src \in TextInputs : NewTextEnvironment(src)
    \/ Turns
    \/ Return

SpecLoops == Init /\ [][NextLoops]_vars

\* what the Lexer has yet to give: the characters left and the lookahead
AtomsLeft(lex) ==
    Len(lex.remain) + (IF lex.nextAtom.type = "EOF" THEN 0 ELSE 1)

\* a loop goes round again after its last turn
GoesRound(states) == pc \in states /\ returned.method # "" /\ ~returned.isNull

\* C28: lexing, parsing and rendering terminate for every finite input,
\* with a tree or markup or a raised failure: what is left to consume is
\* finite, and every turn after which a loop goes round again has consumed
\* some of it, one atom or more of the Lexer in a loop of the Lexer or the
\* Parser and one node or more in the loop of the TextEnvironment
LoopsTerminate ==
    /\ GoesRound({ "lexing" })
          => /\ AtomsLeft(lexer) < AtomsLeft(before)
             /\ AtomsLeft(lexer) >= 0
             /\ AtomsLeft(before) <= Len(input) + 1
    /\ GoesRound({ "rendering" })
          => /\ Len(root.children) < Len(before)
             /\ Len(before) <= Len(input)
    /\ pc \in { "done", "failed" } => (pc = "failed" <=> error # NoError)

\* a loop of the Parser goes round again after a turn that consumed a
\* whole construct
LoopsTerminateWitness ==
    /\ GoesRound({ "lexing" })
    /\ returned.method = "ParseBlockTurn"
    /\ AtomsLeft(before) - AtomsLeft(lexer) >= 5
    /\ lexer.nextAtom.type # "EOF"

\* the loop of the TextEnvironment goes round again after a declaration
\* took all the nodes that were left but one group
NodesConsumed ==
    /\ GoesRound({ "rendering" })
    /\ Len(before) - Len(root.children) >= 2

====
